---- MODULE Spec2Model ----
(***************************************************************************)
(* Model of utils/datasets.py (ScaledYOLOv4.paddle): label caching with    *)
(* hash invalidation, dataset construction, collation, letterbox,          *)
(* random_perspective / box_candidates, load_mosaic and rectangular batch  *)
(* shapes.                                                                 *)
(*                                                                         *)
(* Numbers.  Python floats are modelled by exact rationals <<num, den>>    *)
(* with den > 0; label values are kept in units of 1/Unit.  Python's       *)
(* round() is round-half-to-even, int() truncates, // floors.              *)
(***************************************************************************)
EXTENDS Integers, Sequences, FiniteSets, TLC

VARIABLES
    imgList,    \* the set of image paths the manifest / directory lists
    imgFile,    \* path -> the image file on disk
    lblFile,    \* path -> the label file paired with the image path
    cacheFile,  \* the <label-dir>.cache file
    ds,         \* the outcome of the last LoadImagesAndLabels(...) call
    lastOp,     \* the operation that produced the current state
    edits,      \* number of file-system changes made so far
    co,         \* collate_fn: the batch and its result
    lb,         \* letterbox: the call and its result
    rp,         \* random_perspective: the call and its result
    mo,         \* load_mosaic: the call and its result
    rb,         \* rectangular batch shapes: the call and its result
    gi,         \* __getitem__: the dataset, the call and its result
    ls          \* LoadStreams: the frame slots, the producer threads and the consumer

vars == <<imgList, imgFile, lblFile, cacheFile, ds, lastOp, edits, co, lb, rp, mo, rb, gi, ls>>

dsVars == <<imgList, imgFile, lblFile, cacheFile, ds, lastOp, edits>>

\* The value of a variable that the specification at hand does not use.
Idle == [idle |-> TRUE]

----------------------------------------------------------------------------
(* Arithmetic helpers *)

Min(a, b) == IF a <= b THEN a ELSE b

Max(a, b) == IF a >= b THEN a ELSE b

Abs(a) == IF a < 0 THEN -a ELSE a

\* floor(n / d) for d > 0 (\div floors for a positive divisor)
FloorDiv(n, d) == n \div d

\* ceil(n / d) for d > 0
CeilDiv(n, d) == -((-n) \div d)

\* Python's round(n / d), d > 0: to the nearest integer, ties to the even one
RoundHalfEven(n, d) ==
    LET q == n \div d
        r == n - q * d
    IN  IF 2 * r < d THEN q
        ELSE IF 2 * r > d THEN q + 1
        ELSE IF q % 2 = 0 THEN q ELSE q + 1

\* Python's int(n / d), d > 0: truncation toward zero
Trunc(n, d) == IF n >= 0 THEN n \div d ELSE -((-n) \div d)

RECURSIVE SumSeq(_)
SumSeq(s) == IF s = <<>> THEN 0 ELSE Head(s) + SumSeq(Tail(s))

RECURSIVE SetToSortedSeq(_)
\* sorted(...) of a set of path ids
SetToSortedSeq(S) ==
    IF S = {} THEN <<>>
    ELSE LET m == CHOOSE x \in S : \A y \in S : x <= y
         IN  <<m>> \o SetToSortedSeq(S \ {m})

RECURSIVE Flatten(_)
\* concatenation of a sequence of sequences
Flatten(ss) == IF ss = <<>> THEN <<>> ELSE Head(ss) \o Flatten(Tail(ss))

----------------------------------------------------------------------------
(* Rationals <<num, den>>, den > 0 *)

RECURSIVE GCD(_, _)
GCD(a, b) == IF b = 0 THEN a ELSE GCD(b, a % b)

\* the same rational in lowest terms, with a positive denominator
RNorm(a) ==
    LET n == IF a[2] < 0 THEN -a[1] ELSE a[1]
        d == IF a[2] < 0 THEN -a[2] ELSE a[2]
        g == GCD(IF n < 0 THEN -n ELSE n, d)
    IN  <<n \div g, d \div g>>

RLt(a, b) == a[1] * b[2] < b[1] * a[2]

RLe(a, b) == a[1] * b[2] <= b[1] * a[2]

REq(a, b) == a[1] * b[2] = b[1] * a[2]

RAdd(a, b) == RNorm(<<a[1] * b[2] + b[1] * a[2], a[2] * b[2]>>)

RSub(a, b) == RNorm(<<a[1] * b[2] - b[1] * a[2], a[2] * b[2]>>)

RMul(a, b) == RNorm(<<a[1] * b[1], a[2] * b[2]>>)

\* a / b for b # 0
RDiv(a, b) == RNorm(<<a[1] * b[2], a[2] * b[1]>>)

RInt(n) == <<n, 1>>

\* the least / greatest element of a non-empty set of rationals
RMinSet(S) == CHOOSE x \in S : \A y \in S : RLe(x, y)

RMaxSet(S) == CHOOSE x \in S : \A y \in S : RLe(y, x)

RECURSIVE IsPow2(_)
\* d is a power of two: n / d is then a float without rounding error
IsPow2(d) == d = 1 \/ (d % 2 = 0 /\ IsPow2(d \div 2))

\* clip(x, lo, hi) on rationals
RClip(x, lo, hi) == IF RLt(x, lo) THEN lo ELSE IF RLt(hi, x) THEN hi ELSE x

----------------------------------------------------------------------------
(* Files on disk *)

\* Number of image paths the model knows
NPaths == 2

\* Number of file-system changes explored
MaxEdits == 2

\* Label values are integers in units of 1/Unit (Unit stands for 1.0)
Unit == 2

Paths == 1..NPaths

AbsentFile == [kind |-> "absent", size |-> 0, w |-> 0, h |-> 0, orient |-> 1, lines |-> <<>>]

\* a decodable image of `size` bytes, w x h pixels as stored, EXIF orientation `orient`
Img(size, w, h, orient) ==
    [kind |-> "image", size |-> size, w |-> w, h |-> h, orient |-> orient, lines |-> <<>>]

\* a file Image.open / verify rejects
CorruptImg(size) ==
    [kind |-> "corrupt", size |-> size, w |-> 0, h |-> 0, orient |-> 1, lines |-> <<>>]

\* a text file: a sequence of lines, each a sequence of whitespace-separated tokens
Txt(size, lines) ==
    [kind |-> "text", size |-> size, w |-> 0, h |-> 0, orient |-> 1, lines |-> lines]

Half == Unit \div 2

ImgPool ==
    { AbsentFile,
      Img(1, 20, 10, 1),
      Img(2, 10, 20, 1),
      Img(2, 30, 10, 6),
      Img(1, 9, 20, 1),
      CorruptImg(1) }

LblPool ==
    { AbsentFile,
      Txt(0, <<>>),
      Txt(1, << <<0, Half, Half, Half, Half>> >>),
      Txt(2, << <<Unit, Half, Half, Unit, Unit>>, <<Unit, Half, Half, Unit, Unit>> >>),
      Txt(1, << <<0, -1, Half, Half, Half>> >>),
      Txt(1, << <<0, Half, Half, Unit + 1, Half>> >>),
      Txt(2, << <<0, Half, Half, Half, Half, Half>> >>),
      Txt(2, << <<0, Half, Half, Half, Half>>, <<0, Half>> >>),
      Txt(1, << <<>> >>) }

isfile(f) == f.kind # "absent"

getsize(f) == f.size

\* label path of image path p: the same path id (images -> labels, extension -> .txt)
label_files(list) == list

\* sum(os.path.getsize(f) for f in files if os.path.isfile(f)) over label_files + img_files
get_hash(list) ==
    SumSeq([i \in 1..Len(list) |-> IF isfile(lblFile[list[i]]) THEN getsize(lblFile[list[i]]) ELSE 0])
    + SumSeq([i \in 1..Len(list) |-> IF isfile(imgFile[list[i]]) THEN getsize(imgFile[list[i]]) ELSE 0])

\* exif_size: PIL size (w, h), swapped for orientation 6 and 8
exif_size(f) == IF f.orient = 6 \/ f.orient = 8 THEN <<f.h, f.w>> ELSE <<f.w, f.h>>

----------------------------------------------------------------------------
(* Label arrays and the label scan (cache_labels) *)

\* a numpy array of shape (Len(rows), cols)
Arr(rows, cols) == [rows |-> rows, cols |-> cols]

\* np.zeros((0, 5))
EmptyLabels == Arr(<<>>, 5)

\* smallest image side cache_labels accepts is MinSide + 1
MinSide == 9

\* np.array([x.split() for x in lines], dtype=np.float32) succeeds iff the rows
\* all have the same number of tokens (a ragged list raises ValueError)
Parsable(lines) == \A i, j \in 1..Len(lines) : Len(lines[i]) = Len(lines[j])

ParseLabels(lines) ==
    IF Len(lines) = 0 THEN EmptyLabels ELSE Arr(lines, Len(lines[1]))

NullEntry == [null |-> TRUE, l |-> EmptyLabels, shape |-> <<0, 0>>]

Entry(l, shape) == [null |-> FALSE, l |-> l, shape |-> shape]

\* the body of the for loop of cache_labels for one image / label pair
ScanOne(img, label) ==
    IF img.kind # "image" THEN NullEntry
    ELSE IF ~(exif_size(img)[1] > MinSide /\ exif_size(img)[2] > MinSide) THEN NullEntry
    ELSE IF isfile(label) /\ ~Parsable(label.lines) THEN NullEntry
    ELSE Entry(IF isfile(label) THEN ParseLabels(label.lines) ELSE EmptyLabels,
               exif_size(img))

NoCache == [present |-> FALSE, hash |-> 0, entries |-> <<>>]

\* cache_labels: scan every pair, add the hash, save
cache_labels(list) ==
    [present |-> TRUE,
     hash    |-> get_hash(list),
     entries |-> [p \in {list[i] : i \in 1..Len(list)} |-> ScanOne(imgFile[p], lblFile[p])]]

\* a hash check that only looks whether the cache file exists
CacheAcceptedIfPresent(list) == cacheFile.present

\* lines 326-331: is the cache on disk used as it is?
CacheAccepted(list) == cacheFile.present /\ cacheFile.hash = get_hash(list)

\* the assertions without the upper bound on the coordinate columns
LabelsValidNoUpperBound(l) ==
    Len(l.rows) > 0 =>
        /\ l.cols = 5
        /\ \A i \in 1..Len(l.rows) : \A j \in 1..l.cols : l.rows[i][j] >= 0

\* the per-label-set assertions of lines 361-366
LabelsValid(l) ==
    Len(l.rows) > 0 =>
        /\ l.cols = 5
        /\ \A i \in 1..Len(l.rows) : \A j \in 1..l.cols : l.rows[i][j] >= 0
        /\ \A i \in 1..Len(l.rows) : \A j \in 2..l.cols : l.rows[i][j] <= Unit

----------------------------------------------------------------------------
(* Rectangular batch shapes (LoadImagesAndLabels.__init__, lines 309-310, 335-355) *)

\* bi = np.floor(np.arange(n) / batch_size): batch index of the k-th sample (k = 1..n
\* here, 0..n-1 in the code)
BatchIndex(n, batch_size) == [k \in 1..n |-> (k - 1) \div batch_size]

\* ar = s[:, 1] / s[:, 0] with s[i] = (width, height): height / width
AspectRatios(shapes) == [i \in 1..Len(shapes) |-> <<shapes[i][2], shapes[i][1]>>]

\* the results ar.argsort() may give: the permutations that put ar in ascending order
\* (the order of equal elements is not fixed by the default sort kind)
ArgSorts(ar) ==
    { p \in [1..Len(ar) -> 1..Len(ar)] :
        /\ \A i, j \in 1..Len(ar) : p[i] = p[j] => i = j
        /\ \A i \in 1..Len(ar) - 1 : RLe(ar[p[i]], ar[p[i + 1]]) }

\* x[irect]
Reorder(x, irect) == [i \in 1..Len(x) |-> x[irect[i]]]

\* the unit shape with the second branch taken whenever the first is not
UnitShapeNoSquare(ari) ==
    LET mini == RMinSet(ari)
        maxi == RMaxSet(ari)
    IN  IF RLt(maxi, RInt(1)) THEN <<maxi, RInt(1)>>
        ELSE <<RInt(1), RDiv(RInt(1), mini)>>

\* the body of the loop over batches: the unit shape [h, w] from the batch's min / max
UnitShape(ari) ==
    LET mini == RMinSet(ari)
        maxi == RMaxSet(ari)
    IN  IF RLt(maxi, RInt(1)) THEN <<maxi, RInt(1)>>
        ELSE IF RLt(RInt(1), mini) THEN <<RInt(1), RDiv(RInt(1), mini)>>
        ELSE <<RInt(1), RInt(1)>>

\* np.ceil(x * img_size / stride + pad).astype(int) * stride for one component, x the
\* float nearest x[1] / x[2]: where the exact value is an integer k and x is not exactly
\* representable, the float value may fall just above k and np.ceil then gives k + 1
CeilToStride(x, img_size, stride, pad) ==
    LET v == RAdd(RDiv(RMul(x, RInt(img_size)), RInt(stride)), pad)
        k == CeilDiv(v[1], v[2])
    IN  IF v[2] = 1 /\ ~IsPow2(RNorm(x)[2]) THEN {k * stride, (k + 1) * stride}
        ELSE {k * stride}

RECURSIVE SeqProduct(_)
\* the sequences that take their k-th element from sets[k]
SeqProduct(sets) ==
    IF sets = <<>> THEN {<<>>}
    ELSE {<<h>> \o t : h \in Head(sets), t \in SeqProduct(Tail(sets))}

\* the values batch_shapes may take, from the sorted aspect ratios: one (height, width)
\* per batch
BatchShapes(ar, bi, img_size, stride, pad) ==
    LET nb == bi[Len(ar)] + 1
    IN  SeqProduct([b \in 1..nb |->
            LET u == UnitShape({ar[k] : k \in {k \in 1..Len(ar) : bi[k] = b - 1}})
            IN  CeilToStride(u[1], img_size, stride, pad)
                    \X CeilToStride(u[2], img_size, stride, pad)])

----------------------------------------------------------------------------
(* LoadImagesAndLabels.__init__ *)

\* the border with the half rounded towards zero
MosaicBorderTruncated(img_size) == <<-(img_size \div 2), -(img_size \div 2)>>

\* self.mosaic_border
MosaicBorder(img_size) == <<(-img_size) \div 2, (-img_size) \div 2>>

NoDataset ==
    [outcome |-> "none", rescanned |-> FALSE, hadCache |-> FALSE, oldHash |-> 0,
     newHash |-> 0, img_files |-> <<>>, labels |-> <<>>, shapes |-> <<>>,
     augment |-> FALSE, rect |-> FALSE, mosaic |-> FALSE, img_size |-> 0,
     mosaic_border |-> <<0, 0>>, batch |-> <<>>, batch_shapes |-> <<>>,
     nf |-> 0, ne |-> 0, nd |-> 0]

\* the call raised `exc`; what it did to the cache file before is kept
Raised(exc, base) == [base EXCEPT !.outcome = exc]

\* line 369-370: l[:, 0] = 0
SingleCls(l) == Arr([i \in 1..Len(l.rows) |-> [l.rows[i] EXCEPT ![1] = 0]], l.cols)

\* np.unique(l, axis=0).shape[0] < l.shape[0]
HasDuplicates(l) == Cardinality({l.rows[i] : i \in 1..Len(l.rows)}) < Len(l.rows)

\* cv2.imread(path) is not None
Readable(f) == f.kind = "image"

NonEmpty(l) == Len(l.rows) > 0

\* nf: the label sets with at least one row
CountFound(labels) == Cardinality({i \in 1..Len(labels) : NonEmpty(labels[i])})

\* nd: the label sets with a repeated row
CountDuplicate(labels) == Cardinality({i \in 1..Len(labels) : HasDuplicates(labels[i])})

Construct(img_size, batch_size, stride, pad, augment, rect0, image_weights, single_cls, cache_images) ==
    LET list   == SetToSortedSeq(imgList)
        n      == Len(list)
        bi     == BatchIndex(n, batch_size)
        rect   == IF image_weights THEN FALSE ELSE rect0
        accept == CacheAccepted(list)
        cache  == IF accept THEN cacheFile ELSE cache_labels(list)
        base   == [NoDataset EXCEPT !.rescanned = ~accept,
                                    !.hadCache = cacheFile.present,
                                    !.oldHash = cacheFile.hash,
                                    !.newHash = get_hash(list)]
        found  == [i \in 1..n |-> cache.entries[list[i]]]
        labels == [i \in 1..n |-> found[i].l]
        shapes == [i \in 1..n |-> found[i].shape]
        ar     == AspectRatios(shapes)
    IN  /\ lastOp' = "construct"
        /\ UNCHANGED <<imgList, imgFile, lblFile, edits>>
        /\ IF n = 0
           THEN \* line 308: assert n > 0
                /\ ds' = Raised("AssertionError", NoDataset)
                /\ cacheFile' = cacheFile
           ELSE /\ cacheFile' = cache
                /\ IF \E i \in 1..n : list[i] \notin DOMAIN cache.entries
                   THEN \* line 332: cache[x] of a path the cache does not hold
                        ds' = Raised("KeyError", base)
                   ELSE IF \E i \in 1..n : found[i].null
                   THEN \* line 332: zip(*[..., None, ...])
                        ds' = Raised("TypeError", base)
                   ELSE IF \E i \in 1..n : ~LabelsValid(labels[i])
                   THEN \* lines 362-366
                        ds' = Raised("AssertionError", base)
                   ELSE IF CountFound(labels) = 0 /\ augment
                   THEN \* line 418
                        ds' = Raised("AssertionError", base)
                   ELSE IF cache_images /\ \E i \in 1..n : ~Readable(imgFile[list[i]])
                   THEN \* line 425 -> load_image, line 534
                        ds' = Raised("AssertionError", base)
                   ELSE \E irect \in (IF rect THEN ArgSorts(ar) ELSE {[i \in 1..n |-> i]}) :
                        \E bs \in (IF rect
                                   THEN BatchShapes(Reorder(ar, irect), bi, img_size, stride, pad)
                                   ELSE {<<>>}) :
                        ds' = [base EXCEPT
                                 !.outcome = "ok",
                                 !.img_files = Reorder(list, irect),
                                 !.labels = [i \in 1..n |->
                                     IF single_cls /\ NonEmpty(labels[irect[i]])
                                     THEN SingleCls(labels[irect[i]])
                                     ELSE labels[irect[i]]],
                                 !.shapes = Reorder(shapes, irect),
                                 !.augment = augment,
                                 !.rect = rect,
                                 !.mosaic = (augment /\ ~rect),
                                 !.img_size = img_size,
                                 !.mosaic_border = MosaicBorder(img_size),
                                 !.batch = bi,
                                 !.batch_shapes = bs,
                                 !.nf = CountFound(labels),
                                 !.ne = n - CountFound(labels),
                                 !.nd = CountDuplicate(labels)]

----------------------------------------------------------------------------
(* Changes of the files between constructions *)

\* the manifest / directory gains or loses an image path
ListPath(p) ==
    /\ edits < MaxEdits
    /\ p \notin imgList
    /\ imgList' = imgList \cup {p}
    /\ edits' = edits + 1
    /\ lastOp' = "edit"
    /\ UNCHANGED <<imgFile, lblFile, cacheFile, ds>>

UnlistPath(p) ==
    /\ edits < MaxEdits
    /\ p \in imgList
    /\ imgList' = imgList \ {p}
    /\ edits' = edits + 1
    /\ lastOp' = "edit"
    /\ UNCHANGED <<imgFile, lblFile, cacheFile, ds>>

\* an image file is written, replaced or removed
WriteImage(p, f) ==
    /\ edits < MaxEdits
    /\ f # imgFile[p]
    /\ imgFile' = [imgFile EXCEPT ![p] = f]
    /\ edits' = edits + 1
    /\ lastOp' = "edit"
    /\ UNCHANGED <<imgList, lblFile, cacheFile, ds>>

\* a label file is written, replaced or removed
WriteLabel(p, f) ==
    /\ edits < MaxEdits
    /\ f # lblFile[p]
    /\ lblFile' = [lblFile EXCEPT ![p] = f]
    /\ edits' = edits + 1
    /\ lastOp' = "edit"
    /\ UNCHANGED <<imgList, imgFile, cacheFile, ds>>

----------------------------------------------------------------------------
(* Specification of dataset construction over a changing directory *)

DsImgSize == 64

DsStride == 32

\* the argument combinations constructions are called with
DsArgs ==
    { [batch_size |-> 2, augment |-> FALSE, rect |-> FALSE, image_weights |-> FALSE,
       single_cls |-> FALSE, cache_images |-> FALSE],
      [batch_size |-> 2, augment |-> TRUE, rect |-> FALSE, image_weights |-> FALSE,
       single_cls |-> FALSE, cache_images |-> FALSE],
      [batch_size |-> 1, augment |-> FALSE, rect |-> TRUE, image_weights |-> FALSE,
       single_cls |-> FALSE, cache_images |-> FALSE],
      [batch_size |-> 2, augment |-> TRUE, rect |-> TRUE, image_weights |-> FALSE,
       single_cls |-> TRUE, cache_images |-> FALSE],
      [batch_size |-> 2, augment |-> FALSE, rect |-> TRUE, image_weights |-> TRUE,
       single_cls |-> FALSE, cache_images |-> TRUE] }

DsInit ==
    /\ imgList \in (SUBSET Paths) \ {{}}
    /\ imgFile = [p \in Paths |-> Img(1, 20, 10, 1)]
    /\ lblFile = [p \in Paths |-> Txt(1, << <<0, Half, Half, Half, Half>> >>)]
    /\ cacheFile = NoCache
    /\ ds = NoDataset
    /\ lastOp = "init"
    /\ edits = 0

DsConstruct ==
    \E a \in DsArgs :
        Construct(DsImgSize, a.batch_size, DsStride, RInt(0), a.augment, a.rect,
                  a.image_weights, a.single_cls, a.cache_images)

DsNext ==
    \/ DsConstruct
    \/ \E p \in Paths : ListPath(p)
    \/ \E p \in Paths : UnlistPath(p)
    \/ \E p \in Paths, f \in ImgPool : WriteImage(p, f)
    \/ \E p \in Paths, f \in LblPool : WriteLabel(p, f)

Init ==
    /\ DsInit
    /\ co = Idle /\ lb = Idle /\ rp = Idle /\ mo = Idle /\ rb = Idle /\ gi = Idle /\ ls = Idle

Next == DsNext /\ UNCHANGED <<co, lb, rp, mo, rb, gi, ls>>

Spec == Init /\ [][Next]_vars

----------------------------------------------------------------------------
(* Claims about the label cache and dataset construction (specification Spec) *)

\* the state right after a construction that got as far as the cache check
Constructed == lastOp = "construct" /\ imgList # {}

CurrentList == SetToSortedSeq(imgList)

\* C1: a construction reuses the cache file without rescanning if and only if the file
\* existed and its stored hash equals the hash recomputed over the current label and
\* image files; otherwise it rescans every listed image / label pair and leaves a
\* cache file whose stored hash equals the recomputed one.
C1_CacheReusedIffHashMatches ==
    Constructed =>
        /\ ~ds.rescanned <=> (ds.hadCache /\ ds.oldHash = get_hash(CurrentList))
        /\ ds.newHash = get_hash(CurrentList)
        /\ ~ds.rescanned => cacheFile.present /\ cacheFile.hash = ds.oldHash
        /\ ds.rescanned =>
              /\ cacheFile.present
              /\ cacheFile.hash = get_hash(CurrentList)
              /\ DOMAIN cacheFile.entries = imgList
              /\ \A p \in imgList : cacheFile.entries[p] = ScanOne(imgFile[p], lblFile[p])

\* a cache written by an earlier construction is reused after the files changed
\* without changing the hash
C1_Witness ==
    /\ Constructed
    /\ ~ds.rescanned
    /\ ds.hadCache
    /\ edits > 0
    /\ ds.outcome = "ok"

\* a construction that meets a stale cache and rescans
C1_WitnessRescan ==
    /\ Constructed
    /\ ds.rescanned
    /\ ds.hadCache
    /\ ds.oldHash # ds.newHash

\* C2 (as claimed): a per-file scan failure does not abort the construction; the
\* failed sample keeps an index of the dataset and has an empty label set.
C2_ScanFailureKeepsSample ==
    (Constructed /\ \E p \in imgList : p \in DOMAIN cacheFile.entries /\ cacheFile.entries[p].null) =>
        /\ ds.outcome # "TypeError"
        /\ ds.outcome = "ok" =>
              \A p \in imgList : cacheFile.entries[p].null =>
                  \E i \in 1..Len(ds.img_files) :
                      ds.img_files[i] = p /\ ds.labels[i] = EmptyLabels

\* a fresh scan met a pair it could not read and recorded the null entry
C2_FailureScanned ==
    /\ Constructed
    /\ ds.rescanned
    /\ \E p \in imgList : cacheFile.entries[p].null /\ imgFile[p].kind = "corrupt"
    /\ ds.outcome = "TypeError"

\* the part of C2 the code keeps: the scan goes on over all files and records the
\* failed pair as a null entry
C2_ScanContinues ==
    (Constructed /\ ds.rescanned) =>
        /\ DOMAIN cacheFile.entries = imgList
        /\ \A p \in imgList :
              (imgFile[p].kind # "image" \/ exif_size(imgFile[p])[1] <= MinSide
               \/ exif_size(imgFile[p])[2] <= MinSide
               \/ (isfile(lblFile[p]) /\ ~Parsable(lblFile[p].lines)))
              <=> cacheFile.entries[p].null

\* the claim's three conditions on a label array
C3_WellFormed(l) ==
    Len(l.rows) > 0 =>
        /\ \A i \in 1..Len(l.rows) : Len(l.rows[i]) = 5
        /\ \A i \in 1..Len(l.rows) : \A j \in 1..Len(l.rows[i]) : l.rows[i][j] >= 0
        /\ \A i \in 1..Len(l.rows) : \A j \in 2..Len(l.rows[i]) : l.rows[i][j] <= Unit

\* the cache holds a usable entry for every listed path: line 332 does not raise
C3_LookupSucceeds ==
    \A p \in imgList : p \in DOMAIN cacheFile.entries /\ ~cacheFile.entries[p].null

\* C3: a construction completes only if every non-empty label set has exactly 5
\* columns, no negative value and no coordinate above 1; a label set that breaks one
\* of these aborts the construction (it is never skipped), by the assertion of the
\* validation loop whenever that loop is reached, for a fresh scan and for a reused
\* cache alike.
C3_MalformedLabelsAbort ==
    Constructed =>
        /\ ds.outcome = "ok" =>
              /\ Len(ds.labels) = Cardinality(imgList)
              /\ \A i \in 1..Len(ds.labels) : C3_WellFormed(ds.labels[i])
        /\ (\E p \in imgList : p \in DOMAIN cacheFile.entries
                               /\ ~C3_WellFormed(cacheFile.entries[p].l)) =>
              /\ ds.outcome \in {"AssertionError", "KeyError", "TypeError"}
              /\ C3_LookupSucceeds => ds.outcome = "AssertionError"

\* a reused cache holding a coordinate above 1 aborts the construction
C3_Witness ==
    /\ Constructed
    /\ ~ds.rescanned
    /\ C3_LookupSucceeds
    /\ \E p \in imgList : \E i \in 1..Len(cacheFile.entries[p].l.rows) :
           /\ cacheFile.entries[p].l.cols = 5
           /\ cacheFile.entries[p].l.rows[i][4] > Unit
    /\ ds.outcome = "AssertionError"

----------------------------------------------------------------------------
(* __getitem__'s return value and collate_fn (lines 514-526) *)

\* Largest batch the collation is explored with
MaxBatch == 3

\* labels_out = zeros((nL, 6)); labels_out[:, 1:] = labels
LabelsOut(labels) == [j \in 1..Len(labels) |-> <<0>> \o labels[j]]

\* what __getitem__ returns for a sample: (img, labels_out, path, shapes)
GetItemOut(s) ==
    [img |-> s.img, labels |-> LabelsOut(s.labels), path |-> s.path, shapes |-> s.shapes]

\* shapes of a sample: None on the mosaic path, (h0, w0), ((h / h0, w / w0), pad) otherwise
NoShapes == [none |-> TRUE, hw0 |-> <<0, 0>>]

Shapes(h0, w0) == [none |-> FALSE, hw0 |-> <<h0, w0>>]

\* the samples of a small dataset: image, label rows (class, cx, cy, w, h), path, shapes
CoSamples ==
    { [img |-> 1, labels |-> <<>>, path |-> 1, shapes |-> Shapes(10, 20)],
      [img |-> 2, labels |-> << <<3, 1, 2, 1, 2>> >>, path |-> 2, shapes |-> NoShapes],
      [img |-> 3, labels |-> << <<0, 2, 1, 2, 1>>, <<5, 1, 1, 2, 2>> >>, path |-> 3,
       shapes |-> Shapes(20, 10)],
      [img |-> 4, labels |-> << <<3, 1, 2, 1, 2>>, <<3, 1, 2, 1, 2>> >>, path |-> 4,
       shapes |-> NoShapes] }

\* a label table whose column 0 is set to the 0-based batch position as i + 1
SetSampleIndexFromOne(l, i) == [j \in 1..Len(l) |-> [l[j] EXCEPT ![1] = i + 1]]

\* l[:, 0] = i
SetSampleIndex(l, i) == [j \in 1..Len(l) |-> [l[j] EXCEPT ![1] = i]]

\* collate_fn(batch): enumerate counts the samples from 0
collate_fn(batch) ==
    [img    |-> [k \in 1..Len(batch) |-> batch[k].img],
     labels |-> Flatten([k \in 1..Len(batch) |-> SetSampleIndex(batch[k].labels, k - 1)]),
     path   |-> [k \in 1..Len(batch) |-> batch[k].path],
     shapes |-> [k \in 1..Len(batch) |-> batch[k].shapes]]

NoBatchOut == [img |-> <<>>, labels |-> <<>>, path |-> <<>>, shapes |-> <<>>]

CoInit == co = [batch |-> <<>>, done |-> FALSE, out |-> NoBatchOut]

\* the loader fetches one more sample of the batch
CoFetch(s) ==
    /\ ~co.done
    /\ Len(co.batch) < MaxBatch
    /\ co' = [co EXCEPT !.batch = Append(co.batch, GetItemOut(s))]

\* the loader hands the batch to collate_fn
CoCollate ==
    /\ ~co.done
    /\ Len(co.batch) > 0
    /\ co' = [co EXCEPT !.done = TRUE, !.out = collate_fn(co.batch)]

CoNext == (\E s \in CoSamples : CoFetch(s)) \/ CoCollate

InitCollate ==
    /\ CoInit
    /\ imgList = Idle /\ imgFile = Idle /\ lblFile = Idle /\ cacheFile = Idle /\ ds = Idle
    /\ lastOp = Idle /\ edits = Idle
    /\ lb = Idle /\ rp = Idle /\ mo = Idle /\ rb = Idle /\ gi = Idle /\ ls = Idle

NextCollate == CoNext /\ UNCHANGED <<dsVars, lb, rp, mo, rb, gi, ls>>

SpecCollate == InitCollate /\ [][NextCollate]_vars

\* number of label rows of the samples before the k-th one
RECURSIVE C4_RowsBefore(_, _)
C4_RowsBefore(batch, k) ==
    IF k <= 1 THEN 0 ELSE C4_RowsBefore(batch, k - 1) + Len(batch[k - 1].labels)

\* C4: collate_fn returns one table holding the samples' label rows in batch order;
\* every row of the sample at (0-based) position i has column 0 equal to i and its
\* columns 1..5 unchanged; paths and shapes keep the batch order.
C4_CollateIndexesRows ==
    co.done =>
        LET k == Len(co.batch)
        IN  /\ Len(co.out.labels) = C4_RowsBefore(co.batch, k + 1)
            /\ \A i \in 1..k : \A j \in 1..Len(co.batch[i].labels) :
                   LET row == co.out.labels[C4_RowsBefore(co.batch, i) + j]
                   IN  /\ Len(row) = 6
                       /\ row[1] = i - 1
                       /\ \A c \in 2..6 : row[c] = co.batch[i].labels[j][c]
            /\ Len(co.out.path) = k /\ Len(co.out.shapes) = k
            /\ \A i \in 1..k : /\ co.out.path[i] = co.batch[i].path
                               /\ co.out.shapes[i] = co.batch[i].shapes

\* a collated batch of three samples, the second without rows, the third with two
C4_Witness ==
    /\ co.done
    /\ Len(co.batch) = 3
    /\ Len(co.batch[1].labels) = 1
    /\ Len(co.batch[2].labels) = 0
    /\ Len(co.batch[3].labels) = 2
    /\ co.out.labels[3][1] = 2

----------------------------------------------------------------------------
(* letterbox (lines 621-653) *)

\* Largest image side the letterbox calls are explored with
MaxSide == 4

\* the modulus of the auto padding (np.mod(dw, 128))
AutoStride == 128

\* the values round(x * r) can take for the float product of integer x and the float
\* nearest to r = n / d: the exact product rounded half-to-even, except on an exact tie,
\* where the float product may fall on either side of the tie
RoundScaled(x, r) ==
    IF (2 * x * r[1]) % (2 * r[2]) = r[2]
    THEN {FloorDiv(x * r[1], r[2]), FloorDiv(x * r[1], r[2]) + 1}
    ELSE {RoundHalfEven(x * r[1], r[2])}

\* auto padding that keeps the whole pad
AutoPadWhole(d) == d

\* np.mod(d, 128): the pad of the minimum rectangle
AutoPad(d) == d % AutoStride

\* r = min(new_shape[0] / shape[0], new_shape[1] / shape[1]), capped at 1.0 without scaleup
ScaleRatio(h, w, H, W, scaleup) ==
    LET r == IF RLe(<<H, h>>, <<W, w>>) THEN <<H, h>> ELSE <<W, w>>
    IN  IF ~scaleup /\ RLt(RInt(1), r) THEN RInt(1) ELSE r

\* the two pads int(round(d - 0.1)), int(round(d + 0.1)) rounded alike, without the 0.1
PadsRoundedAlike(d) == <<RoundHalfEven(d[1], d[2]), RoundHalfEven(d[1], d[2])>>

\* top, bottom = int(round(dh - 0.1)), int(round(dh + 0.1)) for the half pad d
Pads(d) ==
    <<RoundHalfEven(10 * d[1] - d[2], 10 * d[2]), RoundHalfEven(10 * d[1] + d[2], 10 * d[2])>>

NoLetterbox ==
    [called |-> FALSE, h |-> 0, w |-> 0, H |-> 0, W |-> 0, auto |-> FALSE,
     scaleFill |-> FALSE, scaleup |-> FALSE, err |-> FALSE, new_unpad |-> <<0, 0>>,
     ratio |-> <<RInt(0), RInt(0)>>, pad |-> <<RInt(0), RInt(0)>>,
     tb |-> <<0, 0>>, lr |-> <<0, 0>>, out_h |-> 0, out_w |-> 0]

\* letterbox(img of h x w, new_shape = (H, W), auto, scaleFill, scaleup) with the scaled
\* size (nw, nh) = new_unpad that line 636 computed
letterbox(h, w, H, W, auto, scaleFill, scaleup, nw, nh) ==
    LET r   == ScaleRatio(h, w, H, W, scaleup)
        dw0 == W - nw
        dh0 == H - nh
        dw  == IF auto THEN AutoPad(dw0) ELSE IF scaleFill THEN 0 ELSE dw0
        dh  == IF auto THEN AutoPad(dh0) ELSE IF scaleFill THEN 0 ELSE dh0
        nu  == IF ~auto /\ scaleFill THEN <<W, H>> ELSE <<nw, nh>>
        rat == IF ~auto /\ scaleFill THEN <<<<W, w>>, <<H, h>>>> ELSE <<r, r>>
        tb  == Pads(<<dh, 2>>)
        lr  == Pads(<<dw, 2>>)
        \* cv2.resize rejects an empty dsize
        err == <<w, h>> # nu /\ (nu[1] < 1 \/ nu[2] < 1)
    IN  [called |-> TRUE, h |-> h, w |-> w, H |-> H, W |-> W, auto |-> auto,
         scaleFill |-> scaleFill, scaleup |-> scaleup, err |-> err, new_unpad |-> nu,
         ratio |-> rat, pad |-> <<<<dw, 2>>, <<dh, 2>>>>,
         tb |-> IF err THEN <<0, 0>> ELSE tb, lr |-> IF err THEN <<0, 0>> ELSE lr,
         out_h |-> IF err THEN 0 ELSE nu[2] + tb[1] + tb[2],
         out_w |-> IF err THEN 0 ELSE nu[1] + lr[1] + lr[2]]

\* the target sides letterbox is called with
LbTargets == {1, 2, 3, 100, AutoStride, 2 * AutoStride}

\* a call about to be made: the image size, the target shape and the flags
LbInit ==
    \E h, w \in 1..MaxSide, H, W \in LbTargets, auto, scaleFill, scaleup \in BOOLEAN :
        lb = [NoLetterbox EXCEPT !.h = h, !.w = w, !.H = H, !.W = W, !.auto = auto,
                                 !.scaleFill = scaleFill, !.scaleup = scaleup]

LbCall ==
    /\ ~lb.called
    /\ \E nw \in RoundScaled(lb.w, ScaleRatio(lb.h, lb.w, lb.H, lb.W, lb.scaleup)),
          nh \in RoundScaled(lb.h, ScaleRatio(lb.h, lb.w, lb.H, lb.W, lb.scaleup)) :
           lb' = letterbox(lb.h, lb.w, lb.H, lb.W, lb.auto, lb.scaleFill, lb.scaleup, nw, nh)

InitLetterbox ==
    /\ LbInit
    /\ imgList = Idle /\ imgFile = Idle /\ lblFile = Idle /\ cacheFile = Idle /\ ds = Idle
    /\ lastOp = Idle /\ edits = Idle
    /\ co = Idle /\ rp = Idle /\ mo = Idle /\ rb = Idle /\ gi = Idle /\ ls = Idle

NextLetterbox == LbCall /\ UNCHANGED <<dsVars, co, rp, mo, rb, gi, ls>>

SpecLetterbox == InitLetterbox /\ [][NextLetterbox]_vars

\* the ratio the claims name: min(H / h, W / w), capped at 1 when scaleup is off
C5_Ratio ==
    LET a == <<lb.H, lb.h>>
        b == <<lb.W, lb.w>>
        m == IF RLe(a, b) THEN a ELSE b
    IN  IF lb.scaleup \/ RLe(m, RInt(1)) THEN m ELSE RInt(1)

\* C5: without auto padding and without scaleFill, letterbox uses the single ratio
\* r = min(H / h, W / w) (at most 1 when scaleup is off), and the image it returns has
\* exactly the target shape (H, W), the top / bottom pads and the left / right pads
\* differing by at most one pixel.
C5_LetterboxHitsTarget ==
    (lb.called /\ ~lb.auto /\ ~lb.scaleFill /\ ~lb.err) =>
        /\ REq(lb.ratio[1], C5_Ratio) /\ REq(lb.ratio[2], C5_Ratio)
        /\ lb.out_h = lb.H /\ lb.out_w = lb.W
        /\ lb.tb[1] >= 0 /\ lb.lr[1] >= 0
        /\ Abs(lb.tb[1] - lb.tb[2]) <= 1
        /\ Abs(lb.lr[1] - lb.lr[2]) <= 1

\* an odd amount of padding is split unevenly: 2 x 3 into 3 x 100 pads 48 left, 49 right
C5_Witness ==
    /\ lb.called /\ ~lb.auto /\ ~lb.scaleFill /\ ~lb.err
    /\ lb.h = 2 /\ lb.w = 3 /\ lb.H = 2 /\ lb.W = 100
    /\ lb.lr = <<48, 49>>
    /\ lb.out_w = 100

\* the smallest multiple of AutoStride that is >= n
C6_NextMultiple(n) == CeilDiv(n, AutoStride) * AutoStride

\* C6 (as claimed): with auto padding the returned height and width are the smallest
\* multiples of the stride >= the scaled size, for any target shape.
C6_AutoPadsToStrideAnyTarget ==
    (lb.called /\ lb.auto /\ ~lb.err) =>
        /\ lb.out_h = C6_NextMultiple(lb.new_unpad[2])
        /\ lb.out_w = C6_NextMultiple(lb.new_unpad[1])

\* C6 (amended): with auto padding, on each axis whose target side is a multiple of 128
\* the returned side is the smallest multiple of 128 >= the scaled side
\* (round(h * r), round(w * r)); on the other axes it is the scaled side plus
\* (target - scaled) mod 128.
C6_AutoPadsToStride ==
    (lb.called /\ lb.auto /\ ~lb.err) =>
        /\ lb.H % AutoStride = 0 => lb.out_h = C6_NextMultiple(lb.new_unpad[2])
        /\ lb.W % AutoStride = 0 => lb.out_w = C6_NextMultiple(lb.new_unpad[1])
        /\ lb.out_h = lb.new_unpad[2] + ((lb.H - lb.new_unpad[2]) % AutoStride)
        /\ lb.out_w = lb.new_unpad[1] + ((lb.W - lb.new_unpad[1]) % AutoStride)
        /\ lb.new_unpad[1] \in RoundScaled(lb.w, C5_Ratio)
        /\ lb.new_unpad[2] \in RoundScaled(lb.h, C5_Ratio)

\* a 4 x 1 image into (256, 256): scaled to 256 x 64, returned as 256 x 128
C6_Witness ==
    /\ lb.called /\ lb.auto /\ ~lb.err
    /\ lb.h = 4 /\ lb.w = 1 /\ lb.H = 2 * AutoStride /\ lb.W = 2 * AutoStride
    /\ lb.scaleup
    /\ lb.new_unpad = <<64, 256>>
    /\ lb.out_w = AutoStride /\ lb.out_h = 2 * AutoStride

----------------------------------------------------------------------------
(* random_perspective and box_candidates (lines 656-723) *)

\* 3 x 3 matrices of rationals
Eye3 == << <<RInt(1), RInt(0), RInt(0)>>, <<RInt(0), RInt(1), RInt(0)>>, <<RInt(0), RInt(0), RInt(1)>> >>

\* A @ B
MatMul(A, B) ==
    [i \in 1..3 |-> [j \in 1..3 |->
        RAdd(RAdd(RMul(A[i][1], B[1][j]), RMul(A[i][2], B[2][j])), RMul(A[i][3], B[3][j]))]]

\* M @ (x, y, 1)
MatVec(M, x, y) ==
    [i \in 1..3 |-> RAdd(RAdd(RMul(M[i][1], x), RMul(M[i][2], y)), M[i][3])]

\* cos and sin of the angles the model samples (degrees), tan of the shear angles
CosDeg(a) == IF a = 0 THEN 1 ELSE IF a = 180 THEN -1 ELSE 0

SinDeg(a) == IF a = 90 THEN 1 ELSE IF a = -90 THEN -1 ELSE 0

TanDeg(a) == IF a = 45 THEN 1 ELSE IF a = -45 THEN -1 ELSE 0

\* C: the image centre goes to the origin
MatC(ih, iw) ==
    << <<RInt(1), RInt(0), RNorm(<<-iw, 2>>)>>, <<RInt(0), RInt(1), RNorm(<<-ih, 2>>)>>,
       <<RInt(0), RInt(0), RInt(1)>> >>

\* P: perspective
MatP(p20, p21) ==
    << <<RInt(1), RInt(0), RInt(0)>>, <<RInt(0), RInt(1), RInt(0)>>, <<p20, p21, RInt(1)>> >>

\* R: cv2.getRotationMatrix2D(angle=a, center=(0, 0), scale=s)
MatR(a, s) ==
    << <<RMul(s, RInt(CosDeg(a))), RMul(s, RInt(SinDeg(a))), RInt(0)>>,
       <<RMul(s, RInt(-SinDeg(a))), RMul(s, RInt(CosDeg(a))), RInt(0)>>,
       <<RInt(0), RInt(0), RInt(1)>> >>

\* S: shear by the angles sx, sy (degrees)
MatS(sx, sy) ==
    << <<RInt(1), RInt(TanDeg(sx)), RInt(0)>>, <<RInt(TanDeg(sy)), RInt(1), RInt(0)>>,
       <<RInt(0), RInt(0), RInt(1)>> >>

\* T: translation by the fractions tx, ty of the output width and height
MatT(tx, ty, width, height) ==
    << <<RInt(1), RInt(0), RMul(tx, RInt(width))>>, <<RInt(0), RInt(1), RMul(ty, RInt(height))>>,
       <<RInt(0), RInt(0), RInt(1)>> >>

\* box_candidates thresholds
WhThr == 2

ArThr == 20

\* area_thr = 0.2 is 1 / AreaThrInv
AreaThrInv == 5

\* box_candidates with the area test passing at equality
box_candidates_area_ge(box1, box2) ==
    LET w1 == RSub(box1[3], box1[1])
        h1 == RSub(box1[4], box1[2])
        w2 == RSub(box2[3], box2[1])
        h2 == RSub(box2[4], box2[2])
        a1 == RMul(w1, h1)
        a2 == RMul(w2, h2)
    IN  /\ RLt(RInt(WhThr), w2)
        /\ RLt(RInt(WhThr), h2)
        /\ RLe(RMul(a1, <<1, AreaThrInv>>), a2)
        /\ RLt(w2, RMul(RInt(ArThr), h2))
        /\ RLt(h2, RMul(RInt(ArThr), w2))

\* box_candidates without the requirement on the width and height
box_candidates_no_wh(box1, box2) ==
    LET w1 == RSub(box1[3], box1[1])
        h1 == RSub(box1[4], box1[2])
        w2 == RSub(box2[3], box2[1])
        h2 == RSub(box2[4], box2[2])
        a1 == RMul(w1, h1)
        a2 == RMul(w2, h2)
    IN  /\ (IF a1[1] = 0 THEN RLt(RInt(0), a2) ELSE RLt(RMul(a1, <<1, AreaThrInv>>), a2))
        /\ RLt(RInt(0), w2) /\ RLt(RInt(0), h2)
        /\ RLt(w2, RMul(RInt(ArThr), h2))
        /\ RLt(h2, RMul(RInt(ArThr), w2))

\* box_candidates(box1, box2) for one box (x1, y1, x2, y2).  The 1e-16 terms: in
\* w2 / (h2 + 1e-16) and h2 / (w2 + 1e-16) they are absorbed by the float sum when
\* w2, h2 > 2; in w2 * h2 / (w1 * h1 + 1e-16) the term only matters for w1 * h1 = 0,
\* where the quotient exceeds area_thr exactly when w2 * h2 > 0.
box_candidates(box1, box2) ==
    LET w1 == RSub(box1[3], box1[1])
        h1 == RSub(box1[4], box1[2])
        w2 == RSub(box2[3], box2[1])
        h2 == RSub(box2[4], box2[2])
        a1 == RMul(w1, h1)
        a2 == RMul(w2, h2)
    IN  /\ RLt(RInt(WhThr), w2)
        /\ RLt(RInt(WhThr), h2)
        /\ (IF a1[1] = 0 THEN RLt(RInt(0), a2) ELSE RLt(RMul(a1, <<1, AreaThrInv>>), a2))
        /\ RLt(w2, RMul(RInt(ArThr), h2))
        /\ RLt(h2, RMul(RInt(ArThr), w2))

\* xy[:, [0, 2]].clip(0, width) left out
ClipBoxNot(b, width, height) == b

\* xy[:, [0, 2]].clip(0, width); xy[:, [1, 3]].clip(0, height)
ClipBox(b, width, height) ==
    <<RClip(b[1], RInt(0), RInt(width)), RClip(b[2], RInt(0), RInt(height)),
      RClip(b[3], RInt(0), RInt(width)), RClip(b[4], RInt(0), RInt(height))>>

\* the four corners (x1, y1), (x2, y2), (x1, y2), (x2, y1) of a target, through M, with
\* the perspective division when `perspective` is non-zero; then the bounding box
WarpBox(t, M, perspective) ==
    LET corners == << <<t[2], t[3]>>, <<t[4], t[5]>>, <<t[2], t[5]>>, <<t[4], t[3]>> >>
        moved   == [k \in 1..4 |-> MatVec(M, corners[k][1], corners[k][2])]
        px      == {IF perspective[1] # 0 THEN RDiv(moved[k][1], moved[k][3]) ELSE moved[k][1] : k \in 1..4}
        py      == {IF perspective[1] # 0 THEN RDiv(moved[k][2], moved[k][3]) ELSE moved[k][2] : k \in 1..4}
    IN  <<RMinSet(px), RMinSet(py), RMaxSet(px), RMaxSet(py)>>

\* the rows of a sequence that satisfy keep, in order
RECURSIVE SelectRows(_, _)
SelectRows(rows, keep) ==
    IF rows = <<>> THEN <<>>
    ELSE (IF Head(keep) THEN <<Head(rows)>> ELSE <<>>) \o SelectRows(Tail(rows), Tail(keep))

NoPerspective ==
    [called |-> FALSE, ih |-> 0, iw |-> 0, border |-> <<0, 0>>, targets |-> <<>>,
     hyp |-> [degrees |-> 0, translate |-> RInt(0), scale |-> RInt(0), shear |-> 0,
              perspective |-> RInt(0)],
     s |-> RInt(1), M |-> Eye3, warp |-> "none", height |-> 0, width |-> 0,
     out_h |-> 0, out_w |-> 0, boxes |-> <<>>, keep |-> <<>>, out |-> <<>>]

\* random_perspective(img of ih x iw, targets, ..., border) with the values smp that the
\* calls of random.uniform returned
random_perspective(ih, iw, targets, hyp, border, smp) ==
    LET height == ih + border[1] * 2
        width  == iw + border[2] * 2
        M      == MatMul(MatT(smp.tx, smp.ty, width, height),
                    MatMul(MatS(smp.sx, smp.sy),
                      MatMul(MatR(smp.a, smp.s),
                        MatMul(MatP(smp.p20, smp.p21), MatC(ih, iw)))))
        warp   == IF border[1] # 0 \/ border[2] # 0 \/ M # Eye3
                  THEN (IF hyp.perspective[1] # 0 THEN "perspective" ELSE "affine")
                  ELSE "none"
        n      == Len(targets)
        boxes  == [k \in 1..n |-> ClipBox(WarpBox(targets[k], M, hyp.perspective), width, height)]
        keep   == [k \in 1..n |->
                      box_candidates(<<RMul(targets[k][2], smp.s), RMul(targets[k][3], smp.s),
                                       RMul(targets[k][4], smp.s), RMul(targets[k][5], smp.s)>>,
                                     boxes[k])]
    IN  [called |-> TRUE, ih |-> ih, iw |-> iw, border |-> border, targets |-> targets,
         hyp |-> hyp, s |-> smp.s, M |-> M, warp |-> warp, height |-> height, width |-> width,
         out_h |-> IF warp = "none" THEN ih ELSE height,
         out_w |-> IF warp = "none" THEN iw ELSE width,
         boxes |-> boxes, keep |-> keep,
         out |-> SelectRows([k \in 1..n |-> <<targets[k][1]>> \o boxes[k]], keep)]

\* the values the model lets random.uniform return
AnglePool == {-90, 0, 90}

ScalePool == {<<1, 2>>, <<1, 1>>, <<3, 2>>}

ShearPool == {-45, 0, 45}

TransPool == {<<1, 4>>, <<1, 2>>, <<3, 4>>}

PerspPool == {<<-1, 16>>, <<0, 1>>, <<1, 16>>}

\* the values of the eight random.uniform calls that lie in the ranges hyp gives
Samples(hyp) ==
    LET persp == {x \in PerspPool : RLe(RSub(RInt(0), hyp.perspective), x) /\ RLe(x, hyp.perspective)}
        shear == {x \in ShearPool : -hyp.shear <= x /\ x <= hyp.shear}
        trans == {x \in TransPool : RLe(RSub(<<1, 2>>, hyp.translate), x)
                                        /\ RLe(x, RAdd(<<1, 2>>, hyp.translate))}
    IN  [p20 : persp, p21 : persp,
         a : {x \in AnglePool : -hyp.degrees <= x /\ x <= hyp.degrees},
         s : {x \in ScalePool : RLe(RSub(RInt(1), hyp.scale), x) /\ RLe(x, RAdd(RInt(1), hyp.scale))},
         sx : shear, sy : shear, tx : trans, ty : trans]

Hyp(degrees, translate, scale, shear, perspective) ==
    [degrees |-> degrees, translate |-> translate, scale |-> scale, shear |-> shear,
     perspective |-> perspective]

HypIdentity == Hyp(0, RInt(0), RInt(0), 0, RInt(0))

HypRotate == Hyp(90, RInt(0), RInt(0), 0, RInt(0))

HypScale == Hyp(0, RInt(0), <<1, 2>>, 0, RInt(0))

HypShear == Hyp(0, RInt(0), RInt(0), 45, RInt(0))

HypTranslate == Hyp(0, <<1, 4>>, RInt(0), 0, RInt(0))

HypPerspective == Hyp(0, RInt(0), RInt(0), 0, <<1, 16>>)

HypMix == Hyp(90, <<1, 4>>, <<1, 2>>, 0, RInt(0))

HypSkew == Hyp(0, RInt(0), RInt(0), 45, <<1, 16>>)

\* a target row (class, x1, y1, x2, y2) with float coordinates
Target(t) == <<t[1], RInt(t[2]), RInt(t[3]), RInt(t[4]), RInt(t[5])>>

Targets(ts) == [k \in 1..Len(ts) |-> Target(ts[k])]

\* targets (class, x1, y1, x2, y2) on an 8 x 8 image
SquareTargets ==
    << <<0, 0, 0, 8, 8>>, <<1, 1, 1, 4, 4>>, <<2, 2, 2, 4, 4>>, <<3, 5, 5, 8, 8>>,
       <<4, -2, -2, 3, 3>>, <<5, 3, 3, 3, 3>>, <<6, 6, 6, 8, 8>> >>

\* targets on a 4 x 64 image
WideTargets ==
    << <<0, 0, 0, 64, 3>>, <<1, 0, 0, 60, 3>>, <<2, 0, 0, 57, 3>>, <<3, 0, 0, 64, 4>> >>

\* targets that reach over the left edge of an 8 x 8 image: clipped to the image they
\* keep 1/5, 1/4 and 3/20 of their area
EdgeTargets ==
    << <<0, -16, 0, 4, 5>>, <<1, -12, 0, 4, 5>>, <<2, -17, 0, 3, 5>>, <<3, 1, 1, 7, 6>> >>

\* the calls explored: image size, border, targets and hyperparameters
RpScenarios ==
    [ih : {8}, iw : {8}, border : {<<0, 0>>}, targets : {Targets(SquareTargets)},
     hyp : {HypIdentity, HypRotate, HypScale, HypShear, HypTranslate, HypPerspective,
            HypMix, HypSkew}]
    \cup [ih : {4}, iw : {64}, border : {<<0, 0>>}, targets : {Targets(WideTargets)},
          hyp : {HypIdentity, HypScale}]
    \cup [ih : {8}, iw : {8}, border : {<<-2, -2>>}, targets : {Targets(SquareTargets)},
          hyp : {HypIdentity, HypTranslate, HypScale}]
    \cup [ih : {8}, iw : {8}, border : {<<0, 0>>}, targets : {<<>>},
          hyp : {HypIdentity, HypRotate}]
    \cup [ih : {8}, iw : {8}, border : {<<0, 0>>}, targets : {Targets(EdgeTargets)},
          hyp : {HypIdentity, HypScale, HypTranslate}]

RpInit ==
    \E sc \in RpScenarios :
        rp = [NoPerspective EXCEPT !.ih = sc.ih, !.iw = sc.iw, !.border = sc.border,
                                   !.targets = sc.targets, !.hyp = sc.hyp]

RpCall ==
    /\ ~rp.called
    /\ \E smp \in Samples(rp.hyp) :
           rp' = random_perspective(rp.ih, rp.iw, rp.targets, rp.hyp, rp.border, smp)

InitPerspective ==
    /\ RpInit
    /\ imgList = Idle /\ imgFile = Idle /\ lblFile = Idle /\ cacheFile = Idle /\ ds = Idle
    /\ lastOp = Idle /\ edits = Idle
    /\ co = Idle /\ lb = Idle /\ mo = Idle /\ rb = Idle /\ gi = Idle /\ ls = Idle

NextPerspective == RpCall /\ UNCHANGED <<dsVars, co, lb, mo, rb, gi, ls>>

SpecPerspective == InitPerspective /\ [][NextPerspective]_vars

\* the call with degrees = 0, translate = 0, scale = 0, shear = 0, perspective = 0 and
\* border (0, 0) has returned
C7_IdentityCall == rp.called /\ rp.hyp = HypIdentity /\ rp.border = <<0, 0>>

\* the target lies within the image bounds
C7_InBounds(t) ==
    /\ RLe(RInt(0), t[2]) /\ RLe(t[2], t[4]) /\ RLe(t[4], RInt(rp.iw))
    /\ RLe(RInt(0), t[3]) /\ RLe(t[3], t[5]) /\ RLe(t[5], RInt(rp.ih))

\* the target is wider and higher than 2 pixels and its aspect ratio is below 20
C7_Passes(t) ==
    /\ RLt(RInt(2), RSub(t[4], t[2]))
    /\ RLt(RInt(2), RSub(t[5], t[3]))
    /\ RLt(RSub(t[4], t[2]), RMul(RInt(20), RSub(t[5], t[3])))
    /\ RLt(RSub(t[5], t[3]), RMul(RInt(20), RSub(t[4], t[2])))

\* C7 (as claimed): the identity call leaves the pixels alone and returns every input
\* box that lies within the image bounds, unchanged.
C7_IdentityKeepsAllBoxes ==
    C7_IdentityCall =>
        /\ rp.warp = "none"
        /\ \A k \in 1..Len(rp.targets) :
               C7_InBounds(rp.targets[k]) =>
                   \E j \in 1..Len(rp.out) : rp.out[j] = rp.targets[k]

\* C7 (amended): the identity call leaves the pixels alone; of the input boxes within
\* the image bounds it returns, unchanged and in their order, exactly those more than
\* 2 pixels wide and high with an aspect ratio below 20, and drops the others.
C7_IdentityKeepsCandidates ==
    C7_IdentityCall =>
        /\ rp.warp = "none" /\ rp.out_h = rp.ih /\ rp.out_w = rp.iw
        /\ \A k \in 1..Len(rp.targets) :
               C7_InBounds(rp.targets[k]) =>
                   /\ rp.keep[k] <=> C7_Passes(rp.targets[k])
                   /\ <<rp.targets[k][1]>> \o rp.boxes[k] = rp.targets[k]
        /\ rp.out = SelectRows([k \in 1..Len(rp.targets) |-> <<rp.targets[k][1]>> \o rp.boxes[k]],
                               rp.keep)

\* an identity call that returned the 3 x 3 box unchanged and dropped the 2 x 2 box
C7_Witness ==
    /\ C7_IdentityCall
    /\ rp.targets = Targets(SquareTargets)
    /\ rp.keep[2] /\ ~rp.keep[3]
    /\ rp.out[2] = <<1, RInt(1), RInt(1), RInt(4), RInt(4)>>
    /\ Len(rp.out) < Len(rp.targets)

\* the bounding box of the moved corners of target k before clipping
C8_Unclipped(k) == WarpBox(rp.targets[k], rp.M, rp.hyp.perspective)

\* the unclipped box has no point inside the canvas
C8_Outside(b) ==
    \/ RLe(b[3], RInt(0)) \/ RLe(RInt(rp.width), b[1])
    \/ RLe(b[4], RInt(0)) \/ RLe(RInt(rp.height), b[2])

\* the filter in the claim's words: wider and higher than 2 pixels, more than a fifth
\* of the scaled area of the input box, aspect ratio below 20
C8_Filter(t, b) ==
    LET w2 == RSub(b[3], b[1])
        h2 == RSub(b[4], b[2])
        a1 == RMul(RMul(rp.s, rp.s), RMul(RSub(t[4], t[2]), RSub(t[5], t[3])))
    IN  /\ RLt(RInt(2), w2) /\ RLt(RInt(2), h2)
        /\ a1[1] # 0 => RLt(a1, RMul(RInt(5), RMul(w2, h2)))
        /\ RLt(w2, RMul(RInt(20), h2)) /\ RLt(h2, RMul(RInt(20), w2))

\* C8: every box random_perspective returns lies inside the output canvas
\* (0 <= x1 <= x2 <= width, 0 <= y1 <= y2 <= height, border included) and passes
\* box_candidates; a box that falls entirely outside the canvas has zero area after
\* clipping and is not returned.
C8_ReturnedBoxesInsideCanvas ==
    rp.called =>
        /\ Len(rp.out) = Cardinality({k \in 1..Len(rp.targets) : rp.keep[k]})
        /\ \A j \in 1..Len(rp.out) :
               /\ RLe(RInt(0), rp.out[j][2]) /\ RLe(rp.out[j][2], rp.out[j][4])
               /\ RLe(rp.out[j][4], RInt(rp.width))
               /\ RLe(RInt(0), rp.out[j][3]) /\ RLe(rp.out[j][3], rp.out[j][5])
               /\ RLe(rp.out[j][5], RInt(rp.height))
               /\ \E k \in 1..Len(rp.targets) :
                      /\ rp.keep[k]
                      /\ rp.out[j] = <<rp.targets[k][1]>> \o rp.boxes[k]
                      /\ C8_Filter(rp.targets[k], rp.boxes[k])
        /\ \A k \in 1..Len(rp.targets) :
               C8_Outside(C8_Unclipped(k)) =>
                   /\ RMul(RSub(rp.boxes[k][3], rp.boxes[k][1]),
                           RSub(rp.boxes[k][4], rp.boxes[k][2])) = RInt(0)
                   /\ ~rp.keep[k]

\* a call after which one box lies entirely outside the canvas and another is
\* returned cut at the canvas edge
C8_Witness ==
    /\ rp.called
    /\ \E k \in 1..Len(rp.targets) :
           C8_Outside(C8_Unclipped(k)) /\ RLt(RInt(0), RSub(C8_Unclipped(k)[3], C8_Unclipped(k)[1]))
    /\ \E k \in 1..Len(rp.targets) : rp.keep[k] /\ rp.boxes[k] # C8_Unclipped(k)

-----------------------------------------------------------------------------
(* load_image and load_mosaic *)

\* int(x * r) for the float r nearest r[1] / r[2]: where the exact product is an integer
\* k and r is not exactly representable the float product may fall just below k
TruncScaled(x, r) ==
    LET p == RMul(RInt(x), r)
        k == Trunc(p[1], p[2])
    IN  IF p[2] = 1 /\ ~IsPow2(r[2]) THEN {k - 1, k} ELSE {k}

\* load_image: the (h, w) of the image after the resize that brings its longer side to
\* img_size; cv2.resize raises for an empty destination size
load_image(h0, w0, img_size) ==
    LET r == RDiv(RInt(img_size), RInt(Max(h0, w0)))
    IN  IF ~REq(r, RInt(1))
        THEN {[err |-> (h = 0 \/ w = 0), h |-> h, w |-> w] :
                  h \in TruncScaled(h0, r), w \in TruncScaled(w0, r)}
        ELSE {[err |-> FALSE, h |-> h0, w |-> w0]}

\* where the i-th image (i = 0..3) of h x w pixels goes on the canvas of side 2 s with
\* centre (xc, yc) = (s, s): a = (x1a, y1a, x2a, y2a) on the canvas, b = (x1b, y1b, x2b,
\* y2b) in the image
Placement(i, h, w, s) ==
    LET xc == s
        yc == s
    IN  IF i = 0 THEN
            LET x1a == Max(xc - w, 0)
                y1a == Max(yc - h, 0)
            IN  [a |-> <<x1a, y1a, xc, yc>>,
                 b |-> <<w - (xc - x1a), h - (yc - y1a), w, h>>]
        ELSE IF i = 1 THEN
            LET y1a == Max(yc - h, 0)
                x2a == Min(xc + w, s * 2)
            IN  [a |-> <<xc, y1a, x2a, yc>>,
                 b |-> <<0, h - (yc - y1a), Min(w, x2a - xc), h>>]
        ELSE IF i = 2 THEN
            LET x1a == Max(xc - w, 0)
                y2a == Min(s * 2, yc + h)
            IN  [a |-> <<x1a, yc, xc, y2a>>,
                 b |-> <<w - (xc - x1a), 0, Max(xc, w), Min(y2a - yc, h)>>]
        ELSE
            LET x2a == Min(xc + w, s * 2)
                y2a == Min(s * 2, yc + h)
            IN  [a |-> <<xc, yc, x2a, y2a>>,
                 b |-> <<0, 0, Min(w, x2a - xc), Min(y2a - yc, h)>>]

\* a label value: row entries are in units of 1 / Unit
LabelValue(t) == RNorm(<<t, Unit>>)

\* a row translated without the placement offset
TranslateBoxNoPad(row, h, w, padw, padh) ==
    LET x  == LabelValue(row[2])
        y  == LabelValue(row[3])
        bw == RDiv(LabelValue(row[4]), RInt(2))
        bh == RDiv(LabelValue(row[5]), RInt(2))
    IN  <<row[1], RMul(RInt(w), RSub(x, bw)), RMul(RInt(h), RSub(y, bh)),
                  RMul(RInt(w), RAdd(x, bw)), RMul(RInt(h), RAdd(y, bh))>>

\* a normalised row (class, cx, cy, w, h) as pixel corners on the canvas
TranslateBox(row, h, w, padw, padh) ==
    LET x  == LabelValue(row[2])
        y  == LabelValue(row[3])
        bw == RDiv(LabelValue(row[4]), RInt(2))
        bh == RDiv(LabelValue(row[5]), RInt(2))
    IN  <<row[1], RAdd(RMul(RInt(w), RSub(x, bw)), RInt(padw)),
                  RAdd(RMul(RInt(h), RSub(y, bh)), RInt(padh)),
                  RAdd(RMul(RInt(w), RAdd(x, bw)), RInt(padw)),
                  RAdd(RMul(RInt(h), RAdd(y, bh)), RInt(padh))>>

\* the labels of the image placed at pl, before the clip
QuadrantLabels(rows, h, w, pl) ==
    [k \in 1..Len(rows) |-> TranslateBox(rows[k], h, w, pl.a[1] - pl.b[1], pl.a[2] - pl.b[2])]

\* np.clip(labels4[:, 1:], 0, 2 * s) on one row
ClipRow(t, s) ==
    <<t[1], RClip(t[2], RInt(0), RInt(2 * s)), RClip(t[3], RInt(0), RInt(2 * s)),
            RClip(t[4], RInt(0), RInt(2 * s)), RClip(t[5], RInt(0), RInt(2 * s))>>

ClipRows(ts, s) == [k \in 1..Len(ts) |-> ClipRow(ts[k], s)]

NoMosaic ==
    [called |-> FALSE, err |-> FALSE, img_size |-> 0, border |-> <<0, 0>>, src |-> <<>>,
     hyp |-> HypIdentity, hw |-> <<>>, place |-> <<>>, labels |-> <<>>, labels4 |-> <<>>,
     height |-> 0, width |-> 0, out |-> <<>>]

\* load_mosaic for the four samples src (src[1] the requested index, the others the
\* random.randint picks), with the sizes `loaded` that load_image returned for them and
\* the values smp that random.uniform returned in random_perspective
load_mosaic(img_size, border, src, hyp, loaded, smp) ==
    LET s      == img_size
        call   == [NoMosaic EXCEPT !.called = TRUE, !.img_size = img_size,
                                   !.border = border, !.src = src, !.hyp = hyp]
        place  == [i \in 1..4 |-> Placement(i - 1, loaded[i].h, loaded[i].w, s)]
        moved  == [i \in 1..4 |->
                      QuadrantLabels(src[i].rows, loaded[i].h, loaded[i].w, place[i])]
        labels == [i \in 1..4 |-> ClipRows(moved[i], s)]
        all    == Flatten(labels)
        res    == random_perspective(s * 2, s * 2, all, hyp, border, smp)
    IN  IF \E i \in 1..4 : loaded[i].err
        THEN [call EXCEPT !.err = TRUE]
        ELSE [call EXCEPT !.hw = [i \in 1..4 |-> <<loaded[i].h, loaded[i].w>>],
                          !.place = place, !.labels = labels, !.labels4 = all,
                          !.height = res.out_h, !.width = res.out_w, !.out = res.out]

\* the samples of a small dataset: stored image size and validated label rows
Sample(h0, w0, rows) == [h0 |-> h0, w0 |-> w0, rows |-> rows]

MoSamples ==
    { Sample(16, 16, << <<0, Half, Half, Half, Half>> >>),
      Sample(16, 32, << <<1, Half, Half, 2 * Half, 2 * Half>>, <<1, Half, Half, Half, Half>> >>),
      Sample(32, 16, << <<2, 0, 0, Unit, Unit>> >>),
      Sample(12, 24, <<>>) }

\* img_size of the datasets explored
MoImgSizes == {5, 16}

MoHyps == {HypIdentity, HypScale}

\* a fetch about to be made
MoInit ==
    \E s \in MoImgSizes, src \in [1..4 -> MoSamples], hyp \in MoHyps :
        mo = [NoMosaic EXCEPT !.img_size = s, !.border = MosaicBorder(s), !.src = src,
                              !.hyp = hyp]

MoCall ==
    /\ ~mo.called
    /\ \E smp \in Samples(mo.hyp) :
       \E l1 \in load_image(mo.src[1].h0, mo.src[1].w0, mo.img_size) :
       \E l2 \in load_image(mo.src[2].h0, mo.src[2].w0, mo.img_size) :
       \E l3 \in load_image(mo.src[3].h0, mo.src[3].w0, mo.img_size) :
       \E l4 \in load_image(mo.src[4].h0, mo.src[4].w0, mo.img_size) :
           mo' = load_mosaic(mo.img_size, mo.border, mo.src, mo.hyp, <<l1, l2, l3, l4>>, smp)

InitMosaic ==
    /\ MoInit
    /\ imgList = Idle /\ imgFile = Idle /\ lblFile = Idle /\ cacheFile = Idle /\ ds = Idle
    /\ lastOp = Idle /\ edits = Idle
    /\ co = Idle /\ lb = Idle /\ rp = Idle /\ rb = Idle /\ gi = Idle /\ ls = Idle

NextMosaic == MoCall /\ UNCHANGED <<dsVars, co, lb, rp, rb, gi, ls>>

SpecMosaic == InitMosaic /\ [][NextMosaic]_vars

\* the box t lies inside the canvas rectangle a = (x1a, y1a, x2a, y2a)
C9_Inside(t, a) ==
    /\ RLe(RInt(a[1]), t[2]) /\ RLe(t[2], RInt(a[3]))
    /\ RLe(RInt(a[1]), t[4]) /\ RLe(t[4], RInt(a[3]))
    /\ RLe(RInt(a[2]), t[3]) /\ RLe(t[3], RInt(a[4]))
    /\ RLe(RInt(a[2]), t[5]) /\ RLe(t[5], RInt(a[4]))

\* the normalised box (cx, cy, w, h) does not extend beyond its image
C9_BoxInImage(row) ==
    /\ 2 * row[2] - row[4] >= 0 /\ 2 * row[2] + row[4] <= 2 * Unit
    /\ 2 * row[3] - row[5] >= 0 /\ 2 * row[3] + row[5] <= 2 * Unit

C9_Composed == mo.called /\ ~mo.err

\* C9 as stated: in load_mosaic, before the perspective step, every box of the image
\* placed in quadrant i has, after the translation by the placement offset and the clip
\* to [0, 2 * img_size], all four coordinates inside the rectangle [x1a, x2a] x
\* [y1a, y2a] its image occupies on the canvas, for every validated label set (values in
\* [0, 1]) and every source image size.
C9_MosaicBoxesInsideQuadrantAnyLabels ==
    C9_Composed =>
        \A i \in 1..4 : \A k \in 1..Len(mo.labels[i]) :
            C9_Inside(mo.labels[i][k], mo.place[i].a)

\* C9 (amended): in load_mosaic, before the perspective step, every box that does not
\* extend beyond its source image (0 <= cx - w/2, cx + w/2 <= 1, 0 <= cy - h/2,
\* cy + h/2 <= 1) has, after the translation by the placement offset of its quadrant and
\* the clip to [0, 2 * img_size], all four coordinates inside the rectangle [x1a, x2a] x
\* [y1a, y2a] its image occupies on the canvas, for every source image size.
C9_MosaicBoxesInsideQuadrant ==
    C9_Composed =>
        \A i \in 1..4 : \A k \in 1..Len(mo.labels[i]) :
            C9_BoxInImage(mo.src[i].rows[k]) => C9_Inside(mo.labels[i][k], mo.place[i].a)

\* a mosaic of four images smaller than their quadrants, each with a box inside its image
C9_Witness ==
    /\ C9_Composed
    /\ \A i \in 1..4 :
          /\ mo.hw[i][1] < mo.img_size \/ mo.hw[i][2] < mo.img_size
          /\ Len(mo.labels[i]) > 0
          /\ \A k \in 1..Len(mo.labels[i]) :
                /\ C9_BoxInImage(mo.src[i].rows[k])
                /\ C9_Inside(mo.labels[i][k], mo.place[i].a)

-----------------------------------------------------------------------------
(* Rectangular batching on its own: lines 309-310 and 335-355 of __init__ *)

\* Number of images of the datasets explored
MaxImages == 3

NoRect ==
    [called |-> FALSE, shapes |-> <<>>, img_size |-> 0, batch_size |-> 1, stride |-> 1,
     pad |-> RInt(0), irect |-> <<>>, ar |-> <<>>, batch |-> <<>>, batch_shapes |-> <<>>]

\* the rect branch for images of the given (width, height), with irect the result of
\* argsort and bs the batch shapes computed
RectBatches(shapes, img_size, batch_size, stride, pad, irect, bs) ==
    LET n  == Len(shapes)
        bi == BatchIndex(n, batch_size)
        ar == Reorder(AspectRatios(shapes), irect)
    IN  [called |-> TRUE, shapes |-> Reorder(shapes, irect), img_size |-> img_size,
         batch_size |-> batch_size, stride |-> stride, pad |-> pad, irect |-> irect,
         ar |-> ar, batch |-> bi, batch_shapes |-> bs]

\* (width, height) of the images, as exif_size gives them
RbShapePool == {<<20, 10>>, <<10, 10>>, <<10, 20>>, <<12, 19>>, <<19, 12>>}

RbImgSizes == {100, 608}

RbPads == {RInt(0), <<1, 2>>}

\* a dataset about to be constructed with rect=True
RbInit ==
    \E n \in 1..MaxImages :
    \E shapes \in [1..n -> RbShapePool], img_size \in RbImgSizes, batch_size \in 1..MaxImages,
       pad \in RbPads :
        rb = [NoRect EXCEPT !.shapes = shapes, !.img_size = img_size,
                            !.batch_size = batch_size, !.stride = DsStride, !.pad = pad]

RbCompute ==
    /\ ~rb.called
    /\ \E irect \in ArgSorts(AspectRatios(rb.shapes)) :
       \E bs \in BatchShapes(Reorder(AspectRatios(rb.shapes), irect),
                              BatchIndex(Len(rb.shapes), rb.batch_size),
                              rb.img_size, rb.stride, rb.pad) :
           rb' = RectBatches(rb.shapes, rb.img_size, rb.batch_size, rb.stride, rb.pad, irect, bs)

InitRect ==
    /\ RbInit
    /\ imgList = Idle /\ imgFile = Idle /\ lblFile = Idle /\ cacheFile = Idle /\ ds = Idle
    /\ lastOp = Idle /\ edits = Idle
    /\ co = Idle /\ lb = Idle /\ rp = Idle /\ mo = Idle /\ gi = Idle /\ ls = Idle

NextRect == RbCompute /\ UNCHANGED <<dsVars, co, lb, rp, mo, gi, ls>>

SpecRect == InitRect /\ [][NextRect]_vars

\* the images of batch b (b = 1..nb)
C10_Members(b) == {k \in 1..Len(rb.ar) : rb.batch[k] = b - 1}

\* batch b holds three images, of aspect ratios 0.5, 1.0 and 2.0
C10_MixedBatch(b) ==
    /\ Cardinality(C10_Members(b)) = 3
    /\ {RNorm(rb.ar[k]) : k \in C10_Members(b)} = {<<1, 2>>, <<1, 1>>, <<2, 1>>}

\* img_size rounded up to a multiple of the stride
C10_SquareSide == CeilDiv(rb.img_size, rb.stride) * rb.stride

\* C10 as stated: with rectangular batching and pad = 0, three images of aspect ratios
\* 0.5, 1.0 and 2.0 that fall in one batch get a batch shape that is not the square
\* default (img_size rounded up to the stride on both axes).
C10_MixedBatchNotSquare ==
    rb.called /\ rb.pad = RInt(0) =>
        \A b \in 1..Len(rb.batch_shapes) :
            C10_MixedBatch(b) => rb.batch_shapes[b] # <<C10_SquareSide, C10_SquareSide>>

\* C10 (amended): with rectangular batching and pad = 0, three images of aspect ratios
\* 0.5, 1.0 and 2.0 that fall in one batch get the square default batch shape: img_size
\* rounded up to the stride on both axes.
C10_MixedBatchIsSquare ==
    rb.called /\ rb.pad = RInt(0) =>
        \A b \in 1..Len(rb.batch_shapes) :
            C10_MixedBatch(b) => rb.batch_shapes[b] = <<C10_SquareSide, C10_SquareSide>>

\* three images of aspect ratios 0.5, 1.0 and 2.0 were batched together with pad = 0 and
\* an img_size that is not a multiple of the stride
C10_Witness ==
    /\ rb.called /\ rb.pad = RInt(0)
    /\ rb.img_size % rb.stride # 0
    /\ \E b \in 1..Len(rb.batch_shapes) : C10_MixedBatch(b)

\* the aspect ratios (height / width) of the samples of batch b
C11_Ratios(b) == {RNorm(<<rb.shapes[k][2], rb.shapes[k][1]>>) : k \in C10_Members(b)}

\* the fractions of img_size batch b needs: (max, 1) when every ratio is below 1,
\* (1, 1 / min) when every ratio is above 1, (1, 1) otherwise
C11_Fractions(b) ==
    LET lo == RMinSet(C11_Ratios(b))
        hi == RMaxSet(C11_Ratios(b))
    IN  IF RLt(hi, RInt(1)) THEN <<hi, RInt(1)>>
        ELSE IF RLt(RInt(1), lo) THEN <<RInt(1), RDiv(RInt(1), lo)>>
        ELSE <<RInt(1), RInt(1)>>

\* m is a positive multiple of the stride
C11_PositiveMultiple(m) == m > 0 /\ m % rb.stride = 0

\* m is the smallest multiple of the stride that is >= f * img_size
C11_SmallestMultiple(m, f) ==
    /\ RLe(RMul(f, RInt(rb.img_size)), RInt(m))
    /\ RLt(RInt(m - rb.stride), RMul(f, RInt(rb.img_size)))

\* the samples are in ascending order of aspect ratio and sample i is in batch
\* floor(i / batch_size)
C11_OrderAndMembership ==
    /\ \A k \in 1..Len(rb.shapes) - 1 :
          RLe(<<rb.shapes[k][2], rb.shapes[k][1]>>, <<rb.shapes[k + 1][2], rb.shapes[k + 1][1]>>)
    /\ \A k \in 1..Len(rb.shapes) : rb.batch[k] = (k - 1) \div rb.batch_size
    /\ Len(rb.batch_shapes) = (Len(rb.shapes) - 1) \div rb.batch_size + 1

\* C11: in rectangular mode the samples are ordered by ascending aspect ratio, sample i
\* belongs to batch floor(i / batch_size), and batch_shapes[b] is derived from the
\* minimum and maximum aspect ratio of exactly the samples of batch b, each component a
\* positive multiple of the stride and, for pad = 0, the smallest such multiple that is
\* >= the corresponding fraction of img_size.
C11_BatchShapesSmallestMultiple ==
    rb.called =>
        /\ C11_OrderAndMembership
        /\ \A b \in 1..Len(rb.batch_shapes) : \A c \in 1..2 :
              /\ C11_PositiveMultiple(rb.batch_shapes[b][c])
              /\ rb.pad = RInt(0) =>
                    C11_SmallestMultiple(rb.batch_shapes[b][c], C11_Fractions(b)[c])

\* what remains of C11 under float rounding: order, membership, positive multiples of
\* the stride that are >= the fraction of img_size and exceed the smallest such
\* multiple by at most one stride
C11_BatchShapesWithinOneStride ==
    rb.called =>
        /\ C11_OrderAndMembership
        /\ \A b \in 1..Len(rb.batch_shapes) : \A c \in 1..2 :
              /\ C11_PositiveMultiple(rb.batch_shapes[b][c])
              /\ rb.pad = RInt(0) =>
                    \/ C11_SmallestMultiple(rb.batch_shapes[b][c], C11_Fractions(b)[c])
                    \/ C11_SmallestMultiple(rb.batch_shapes[b][c] - rb.stride,
                                            C11_Fractions(b)[c])

\* a 12 x 19 image alone in its batch, img_size 608, stride 32, pad 0: the width of the
\* batch shape came out as 416, one stride above 384 = 608 * 12 / 19
C11_FloatCeilOneStrideAbove ==
    /\ rb.called /\ rb.pad = RInt(0) /\ rb.img_size = 608 /\ rb.stride = 32
    /\ rb.shapes = << <<12, 19>> >>
    /\ rb.batch_shapes = << <<608, 416>> >>

\* C12 as stated: for every img_size, load_mosaic returns an image of exactly img_size x
\* img_size pixels: the canvas of side 2 * img_size goes to random_perspective with a
\* negative border of half the image size on each axis, and the output height and width
\* both equal img_size.
C12_MosaicOutputIsImgSizeAnySize ==
    C9_Composed => mo.height = mo.img_size /\ mo.width = mo.img_size

\* C12 (amended): for every even img_size, load_mosaic returns an image of exactly
\* img_size x img_size pixels; for an odd img_size the border -img_size // 2 is
\* -(img_size + 1) / 2 on each axis and the image returned is (img_size - 1) x
\* (img_size - 1).
C12_MosaicOutputIsImgSize ==
    C9_Composed =>
        /\ mo.img_size % 2 = 0 =>
              /\ mo.border = <<-(mo.img_size \div 2), -(mo.img_size \div 2)>>
              /\ mo.height = mo.img_size /\ mo.width = mo.img_size
        /\ mo.img_size % 2 = 1 =>
              /\ mo.border = <<-((mo.img_size + 1) \div 2), -((mo.img_size + 1) \div 2)>>
              /\ mo.height = mo.img_size - 1 /\ mo.width = mo.img_size - 1

\* a mosaic of an even img_size came back img_size x img_size, and the canvas had
\* boxes on it
C12_Witness ==
    /\ C9_Composed
    /\ mo.img_size % 2 = 0
    /\ mo.height = mo.img_size /\ mo.width = mo.img_size
    /\ Len(mo.labels4) > 0

-----------------------------------------------------------------------------
(* LoadImagesAndLabels.__getitem__ *)

\* lines 314-318: the flags a dataset keeps
DatasetFlags(augment, rect0, image_weights) ==
    LET rect == IF image_weights THEN FALSE ELSE rect0
    IN  [augment |-> augment, image_weights |-> image_weights, rect |-> rect,
         mosaic |-> (augment /\ ~rect)]

\* the outcomes of `random.random() < p` for a probability p in [0, 1]
RandomBelow(p) ==
    IF RLe(p, RInt(0)) THEN {FALSE} ELSE IF RLe(RInt(1), p) THEN {TRUE} ELSE BOOLEAN

\* what one load_mosaic call (with the random_perspective call it ends with) may return
\* for the dataset d and the index
MosaicResults(d, index) ==
    UNION { LET src == <<d.samples[index], d.samples[p[1]], d.samples[p[2]], d.samples[p[3]]>>
            IN  { load_mosaic(d.img_size, MosaicBorder(d.img_size), src, d.hyp.geo, l, smp) :
                    l \in SeqProduct([i \in 1..4 |->
                             load_image(src[i].h0, src[i].w0, d.img_size)]),
                    smp \in Samples(d.hyp.geo) } :
            p \in [1..3 -> 1..Len(d.samples)] }

\* lines 482-488: the rows of sample x as pixel corners in the letterboxed image
LetterboxLabels(rows, h, w, ratio, pad) ==
    [k \in 1..Len(rows) |->
        LET x  == LabelValue(rows[k][2])
            y  == LabelValue(rows[k][3])
            bw == RDiv(LabelValue(rows[k][4]), RInt(2))
            bh == RDiv(LabelValue(rows[k][5]), RInt(2))
        IN  <<rows[k][1],
              RAdd(RMul(RMul(ratio[1], RInt(w)), RSub(x, bw)), pad[1]),
              RAdd(RMul(RMul(ratio[2], RInt(h)), RSub(y, bh)), pad[2]),
              RAdd(RMul(RMul(ratio[1], RInt(w)), RAdd(x, bw)), pad[1]),
              RAdd(RMul(RMul(ratio[2], RInt(h)), RAdd(y, bh)), pad[2])>>]

\* shapes = (h0, w0), ((h / h0, w / w0), pad), or None
GiShapes(h0, w0, h, w, pad) ==
    [none |-> FALSE, hw0 |-> <<h0, w0>>, ratio |-> <<RNorm(<<h, h0>>), RNorm(<<w, w0>>)>>,
     pad |-> pad]

GiNoShapes ==
    [none |-> TRUE, hw0 |-> <<0, 0>>, ratio |-> <<RInt(0), RInt(0)>>,
     pad |-> <<RInt(0), RInt(0)>>]

\* lines 475-488: load_image, letterbox to the batch shape or the square img_size, and
\* the labels mapped into the letterboxed image
SingleResults(d, index) ==
    UNION { IF li.err
            THEN {[err |-> TRUE, shapes |-> GiNoShapes, h |-> 0, w |-> 0, labels |-> <<>>]}
            ELSE LET shape == IF d.rect THEN d.batch_shapes[d.batch[index] + 1]
                              ELSE <<d.img_size, d.img_size>>
                     r     == ScaleRatio(li.h, li.w, shape[1], shape[2], d.augment)
                 IN  { LET lbx == letterbox(li.h, li.w, shape[1], shape[2], FALSE, FALSE,
                                            d.augment, nw, nh)
                       IN  [err |-> lbx.err,
                            shapes |-> GiShapes(d.samples[index].h0, d.samples[index].w0,
                                                li.h, li.w, lbx.pad),
                            h |-> lbx.out_h, w |-> lbx.out_w,
                            labels |-> LetterboxLabels(d.samples[index].rows, li.h, li.w,
                                                       lbx.ratio, lbx.pad)] :
                       nw \in RoundScaled(li.w, r), nh \in RoundScaled(li.h, r) } :
            li \in load_image(d.samples[index].h0, d.samples[index].w0, d.img_size) }

\* random_perspective is called in __getitem__ whenever augmentation is on
GiPerspectiveAlways(d) == d.augment

\* lines 489-491: random_perspective is called in __getitem__
GiPerspectiveHere(d) == d.augment /\ ~d.mosaic

NoGetItem ==
    [returned |-> FALSE, err |-> FALSE, index |-> 0, path |-> "none", ops |-> <<>>,
     shapes |-> GiNoShapes, h |-> 0, w |-> 0, labels |-> <<>>, nL |-> 0]

\* lines 489-499: random_perspective on the single-image path with the draws smp, and
\* nothing on the mosaic path or without augmentation
GiGeometry(d, h, w, labels, smp) ==
    IF GiPerspectiveHere(d)
    THEN random_perspective(h, w, labels, d.hyp.geo, <<0, 0>>, smp)
    ELSE [out_h |-> h, out_w |-> w, out |-> labels]

\* lines 500-519: augment_hsv, the conversion to xywh, the flips and the return value,
\* for the image and labels res that lines 489-499 leave
GiFinish(d, index, path, ops, shapes, res, ud, lr) ==
    { [returned |-> TRUE, err |-> FALSE, index |-> index, path |-> path,
       ops |-> ops
               \o (IF GiPerspectiveHere(d) THEN <<"random_perspective">> ELSE <<>>)
               \o (IF d.augment THEN <<"augment_hsv">> ELSE <<>>)
               \o (IF Len(res.out) > 0 THEN <<"xyxy2xywh">> ELSE <<>>)
               \o (IF fud THEN <<"flipud">> ELSE <<>>)
               \o (IF flr THEN <<"fliplr">> ELSE <<>>),
       shapes |-> shapes, h |-> res.out_h, w |-> res.out_w, labels |-> res.out,
       nL |-> Len(res.out)] :
      fud \in ud, flr \in lr }

\* lines 489-519: augmentation, normalisation and flips of the image of h x w pixels with
\* the labels, after the operations ops
GetItemTail(d, index, path, ops, shapes, h, w, labels) ==
    UNION { GiFinish(d, index, path, ops, shapes, GiGeometry(d, h, w, labels, smp),
                     IF d.augment THEN RandomBelow(d.hyp.flipud) ELSE {FALSE},
                     IF d.augment THEN RandomBelow(d.hyp.fliplr) ELSE {FALSE}) :
            smp \in Samples(IF GiPerspectiveHere(d) THEN d.hyp.geo ELSE HypIdentity) }

\* the operations of one load_mosaic call
MosaicOps == <<"load_mosaic", "random_perspective">>

\* __getitem__(index0) on the dataset d: what it may return
getitem(d, index0) ==
    LET index == IF d.image_weights THEN d.indices[index0] ELSE index0
        fail  == [NoGetItem EXCEPT !.returned = TRUE, !.err = TRUE, !.index = index]
    IN  IF d.mosaic
        THEN UNION { IF m1.err THEN {[fail EXCEPT !.path = "mosaic"]}
                     ELSE UNION {
                         IF mix
                         THEN UNION { IF m2.err THEN {[fail EXCEPT !.path = "mosaic"]}
                                      ELSE GetItemTail(d, index, "mosaic",
                                               MosaicOps \o MosaicOps \o <<"mixup">>,
                                               GiNoShapes, m1.height, m1.width,
                                               m1.out \o m2.out) :
                                      m2 \in UNION {MosaicResults(d, i2) : i2 \in 1..Len(d.samples)} }
                         ELSE GetItemTail(d, index, "mosaic", MosaicOps, GiNoShapes,
                                          m1.height, m1.width, m1.out) :
                         mix \in RandomBelow(d.hyp.mixup) } :
                     m1 \in MosaicResults(d, index) }
        ELSE UNION { IF s1.err THEN {[fail EXCEPT !.path = "single"]}
                     ELSE GetItemTail(d, index, "single", <<"load_image", "letterbox">>,
                                      s1.shapes, s1.h, s1.w, s1.labels) :
                     s1 \in SingleResults(d, index) }

\* the hyperparameters __getitem__ reads: those of random_perspective and the three
\* probabilities
GiHyp(geo, mixup, flipud, fliplr) ==
    [geo |-> geo, mixup |-> mixup, flipud |-> flipud, fliplr |-> fliplr]

GiHyps ==
    { GiHyp(HypIdentity, RInt(0), RInt(0), RInt(0)),
      GiHyp(HypIdentity, <<1, 2>>, <<1, 2>>, <<1, 2>>),
      GiHyp(HypScale, RInt(0), RInt(1), RInt(0)) }

\* a dataset of two samples, in ascending order of aspect ratio
GiSamples ==
    << Sample(16, 32, << <<1, Half, Half, 2 * Half, 2 * Half>>, <<1, Half, Half, Half, Half>> >>),
       Sample(32, 16, << <<2, 0, 0, Unit, Unit>> >>) >>

GiImgSizes == {16}

\* a constructed dataset; self.indices is what the trainer assigned for image_weights
GiInit ==
    \E augment, rect0, image_weights \in BOOLEAN, hyp \in GiHyps, img_size \in GiImgSizes,
       batch_size \in 1..2, indices \in {<<1, 2>>, <<2, 2>>} :
    \E bs \in BatchShapes(AspectRatios([i \in 1..2 |-> <<GiSamples[i].w0, GiSamples[i].h0>>]),
                          BatchIndex(2, batch_size), img_size, DsStride, RInt(0)) :
        gi = [d |-> DatasetFlags(augment, rect0, image_weights) @@
                    [hyp |-> hyp, samples |-> GiSamples, img_size |-> img_size,
                     batch |-> BatchIndex(2, batch_size),
                     batch_shapes |-> IF ~image_weights /\ rect0 THEN bs ELSE <<>>,
                     indices |-> IF image_weights THEN indices ELSE <<1, 2>>],
              call |-> NoGetItem]

GiFetch ==
    /\ ~gi.call.returned
    /\ \E index0 \in 1..Len(gi.d.samples) : \E r \in getitem(gi.d, index0) :
           gi' = [gi EXCEPT !.call = r]

InitGetItem ==
    /\ GiInit
    /\ imgList = Idle /\ imgFile = Idle /\ lblFile = Idle /\ cacheFile = Idle /\ ds = Idle
    /\ lastOp = Idle /\ edits = Idle
    /\ co = Idle /\ lb = Idle /\ rp = Idle /\ mo = Idle /\ rb = Idle /\ ls = Idle

NextGetItem == GiFetch /\ UNCHANGED <<dsVars, co, lb, rp, mo, rb, ls>>

SpecGetItem == InitGetItem /\ [][NextGetItem]_vars

\* how often the operation op was applied in the call
C13_Count(op) == Cardinality({k \in 1..Len(gi.call.ops) : gi.call.ops[k] = op})

C13_Fetched == gi.call.returned /\ ~gi.call.err

\* every load_mosaic is followed at once by its one random_perspective, and there is no
\* other random_perspective
C13_OncePerComposite ==
    /\ \A k \in 1..Len(gi.call.ops) :
          gi.call.ops[k] = "load_mosaic" =>
              k < Len(gi.call.ops) /\ gi.call.ops[k + 1] = "random_perspective"
    /\ C13_Count("random_perspective") = C13_Count("load_mosaic")

\* C13: each call of __getitem__ follows the path the dataset flags fix: with mosaic
\* (augment and not rect) the mosaic path, returning shapes = None; otherwise the
\* single-image letterbox path, returning shapes = (original shape, (ratio, pad)). With
\* augmentation random_perspective is applied exactly once to each mosaic composite
\* (inside load_mosaic, not again in __getitem__) and exactly once to a single-image
\* sample, and HSV jitter on both paths; without augmentation neither perspective, HSV
\* jitter nor flips are applied.
C13_PathFixedByFlags ==
    C13_Fetched =>
        /\ gi.d.mosaic = (gi.d.augment /\ ~gi.d.rect)
        /\ gi.d.mosaic =>
              /\ gi.call.path = "mosaic" /\ gi.call.shapes.none
              /\ C13_Count("load_mosaic") >= 1 /\ C13_Count("letterbox") = 0
              /\ C13_OncePerComposite
        /\ ~gi.d.mosaic =>
              /\ gi.call.path = "single" /\ ~gi.call.shapes.none
              /\ gi.call.shapes.hw0 = <<gi.d.samples[gi.call.index].h0,
                                        gi.d.samples[gi.call.index].w0>>
              /\ C13_Count("load_mosaic") = 0 /\ C13_Count("letterbox") = 1
              /\ C13_Count("random_perspective") = (IF gi.d.augment THEN 1 ELSE 0)
        /\ gi.d.augment => C13_Count("augment_hsv") = 1
        /\ ~gi.d.augment =>
              /\ C13_Count("random_perspective") = 0 /\ C13_Count("augment_hsv") = 0
              /\ C13_Count("flipud") = 0 /\ C13_Count("fliplr") = 0

\* a mosaic fetch that mixed in a second composite
C13_Witness ==
    /\ C13_Fetched /\ gi.d.mosaic
    /\ C13_Count("mixup") = 1 /\ C13_Count("load_mosaic") = 2

\* a single-image fetch of an augmenting rectangular dataset
C13_WitnessSingle ==
    /\ C13_Fetched /\ gi.d.augment /\ gi.d.rect
    /\ gi.call.path = "single" /\ C13_Count("random_perspective") = 1

\* width, height and area of the k-th target after the transform (clipped), and its
\* area before, scaled by s
C14_W2(k) == RSub(rp.boxes[k][3], rp.boxes[k][1])

C14_H2(k) == RSub(rp.boxes[k][4], rp.boxes[k][2])

C14_Area2(k) == RMul(C14_W2(k), C14_H2(k))

C14_Area1(k) ==
    RMul(RMul(rp.s, rp.s),
         RMul(RSub(rp.targets[k][4], rp.targets[k][2]), RSub(rp.targets[k][5], rp.targets[k][3])))

\* width and height above 2 pixels, long side / short side below 20
C14_SizeAndAspect(k) ==
    /\ RLt(RInt(2), C14_W2(k)) /\ RLt(RInt(2), C14_H2(k))
    /\ RLt(RDiv(C14_W2(k), C14_H2(k)), RInt(20))
    /\ RLt(RDiv(C14_H2(k), C14_W2(k)), RInt(20))

\* C14 as stated: box_candidates keeps a box exactly when its post-transform width and
\* height both exceed 2 pixels, its post-transform area is at least 20% of the
\* pre-transform scaled area, and its aspect ratio is below 20.
C14_KeptIffAreaAtLeastFifth ==
    rp.called =>
        \A k \in 1..Len(rp.targets) :
            rp.keep[k] <=> (/\ C14_SizeAndAspect(k)
                            /\ RLe(RMul(<<1, 5>>, C14_Area1(k)), C14_Area2(k)))

\* C14 (amended): box_candidates keeps a box exactly when its post-transform width and
\* height both exceed 2 pixels, its post-transform area is more than 20% of the
\* pre-transform scaled area, and its aspect ratio (long side / short side) is below 20;
\* every other box is rejected, and the rows returned are exactly the kept ones.
C14_KeptIffAreaAboveFifth ==
    rp.called =>
        /\ \A k \in 1..Len(rp.targets) :
              rp.keep[k] <=> (/\ C14_SizeAndAspect(k)
                              /\ RLt(RMul(<<1, 5>>, C14_Area1(k)), C14_Area2(k)))
        /\ Len(rp.out) = Cardinality({k \in 1..Len(rp.targets) : rp.keep[k]})

\* a call that kept a box with 1/4 of its area left and rejected boxes with 1/5 and 3/20
C14_Witness ==
    /\ rp.called /\ rp.targets = Targets(EdgeTargets) /\ rp.hyp = HypIdentity
    /\ rp.keep = <<FALSE, TRUE, FALSE, TRUE>>
    /\ REq(RMul(<<1, 5>>, C14_Area1(1)), C14_Area2(1))

-----------------------------------------------------------------------------
(* LoadStreams: the update threads and __next__ *)

\* the streams of the sources file, numbered from 1 (index i of the code is stream i + 1)
Streams == {1, 2}

\* cap.grab() calls explored per stream
MaxGrabs == 5

\* __next__ calls explored
MaxNext == 2

\* every n-th grabbed frame is retrieved
Decimation == 4

\* an empty slot: the None that cap.read() / cap.retrieve() return with a False flag
NoFrame == 0

\* the frame the k-th grab of a stream decodes to (the frame read in __init__ is 1)
Frame(k) == k + 1

\* cap.retrieve(): the frame of the last grab, or None when that grab failed
Retrieve(grabs, ok) == IF ok THEN Frame(grabs) ELSE NoFrame

\* self.imgs[index] = img
StoreSlot(imgs, index, img) == [imgs EXCEPT ![index] = img]

\* the state LoadStreams(sources) leaves: one frame read into every slot, one thread per
\* stream about to enter its loop, and the iterator before its first __next__; writes[j]
\* records who assigned slot j and at which grab
LsInit ==
    ls = [imgs   |-> [i \in Streams |-> Frame(0)],
          n      |-> [i \in Streams |-> 0],
          grabs  |-> [i \in Streams |-> 0],
          ok     |-> [i \in Streams |-> TRUE],
          pc     |-> [i \in Streams |-> "grab"],
          count  |-> -1,
          img0   |-> [i \in Streams |-> NoFrame],
          ret    |-> "none",
          actor  |-> 0,
          writes |-> [i \in Streams |-> {}]]

\* update(index, cap), lines 238-239: n += 1; cap.grab(), which may fail
Grab(i) ==
    /\ ls.pc[i] = "grab"
    /\ ls.grabs[i] < MaxGrabs
    /\ \E ok \in BOOLEAN :
           ls' = [ls EXCEPT !.n[i] = @ + 1, !.grabs[i] = @ + 1, !.ok[i] = ok,
                            !.pc[i] = "store", !.actor = i]

\* update(index, cap), lines 240-243: on the 4th grab retrieve the frame into the slot,
\* whatever flag retrieve returns; then sleep
Store(i) ==
    /\ ls.pc[i] = "store"
    /\ IF ls.n[i] = Decimation
       THEN LET imgs == StoreSlot(ls.imgs, i, Retrieve(ls.grabs[i], ls.ok[i]))
            IN  ls' = [ls EXCEPT !.imgs = imgs, !.n[i] = 0, !.pc[i] = "grab", !.actor = i,
                                 !.writes = [j \in Streams |->
                                     IF j = i \/ imgs[j] # ls.imgs[j]
                                     THEN @[j] \cup {<<i, ls.grabs[i]>>} ELSE @[j]]]
       ELSE ls' = [ls EXCEPT !.pc[i] = "grab", !.actor = i]

\* __next__: copy the slots, stop on the key q, letterbox every copied frame (a None
\* has no shape: AttributeError)
LsNextCall ==
    /\ ls.count + 1 < MaxNext
    /\ \E q \in BOOLEAN :
           ls' = [ls EXCEPT !.count = @ + 1, !.img0 = ls.imgs, !.actor = 0,
                            !.ret = IF q THEN "StopIteration"
                                    ELSE IF \E i \in Streams : ls.imgs[i] = NoFrame
                                    THEN "AttributeError" ELSE "returned"]

LsNext == LsNextCall \/ \E i \in Streams : Grab(i) \/ Store(i)

InitStreams ==
    /\ LsInit
    /\ imgList = Idle /\ imgFile = Idle /\ lblFile = Idle /\ cacheFile = Idle /\ ds = Idle
    /\ lastOp = Idle /\ edits = Idle
    /\ co = Idle /\ lb = Idle /\ rp = Idle /\ mo = Idle /\ rb = Idle /\ gi = Idle

NextStreams == LsNext /\ UNCHANGED <<dsVars, co, lb, rp, mo, rb, gi>>

SpecStreams == InitStreams /\ [][NextStreams]_vars

\* the producer of stream i writes only slot i, at every 4th grab
C15_OwnSlotDecimated ==
    \A j \in Streams : \A w \in ls.writes[j] : w[1] = j /\ w[2] % Decimation = 0

\* __next__ can run whatever the producers are doing
C15_NeverWaits == ls.count + 1 < MaxNext => ENABLED LsNextCall

\* a __next__ hands out what the slots held when it ran
C15_LatestFrames == [][ls'.actor = 0 => ls'.img0 = ls.imgs]_vars

\* C15: under any interleaving of the producer threads and the consumer, the producer
\* of stream i writes only slot i and overwrites it at every 4th grabbed frame, and
\* __next__ never waits for a producer: it returns for each stream the frame most
\* recently stored in that stream's slot, which is always a frame, never an empty slot.
C15_ConsumerAlwaysGetsFrames ==
    /\ C15_OwnSlotDecimated
    /\ C15_NeverWaits
    /\ \A i \in Streams : ls.imgs[i] # NoFrame
    /\ ls.ret # "AttributeError"
    /\ ls.ret = "returned" => \A i \in Streams : ls.img0[i] # NoFrame

\* what holds of C15: own slot, decimation, no waiting, and frames whenever __next__
\* returns
C15_ReturnedFramesAreFrames ==
    /\ C15_OwnSlotDecimated
    /\ C15_NeverWaits
    /\ ls.ret = "returned" => \A i \in Streams : ls.img0[i] # NoFrame

\* the 4th grab of a stream failed, its slot was overwritten with None, and the next
\* __next__ raised
C15_EmptySlotRead ==
    /\ \E i \in Streams : ls.imgs[i] = NoFrame /\ <<i, Decimation>> \in ls.writes[i]
    /\ ls.ret = "AttributeError"

----------------------------------------------------------------------------
(* The accepted cache and the current file list (specification Spec) *)

\* a construction that took the cache file as it was
C16_Accepted == Constructed /\ ~ds.rescanned /\ ds.hadCache /\ ds.oldHash = ds.newHash

\* C16: after any sequence of constructions and file changes between them, whenever a
\* construction accepts the cache file because the hashes match, the cache holds an
\* entry for every image path of the current list, so the lookup of labels and shapes
\* at line 332 never misses.
C16_AcceptedCacheCoversList ==
    C16_Accepted =>
        /\ \A p \in imgList : p \in DOMAIN cacheFile.entries
        /\ ds.outcome # "KeyError"

\* the list changed to a path the cache never saw while the sizes still add up to the
\* stored hash: the cache is accepted and the lookup raises KeyError
C16_AcceptedCacheMissesPath ==
    /\ C16_Accepted
    /\ \E p \in imgList : p \notin DOMAIN cacheFile.entries
    /\ cacheFile.hash = get_hash(CurrentList)
    /\ ds.outcome = "KeyError"

\* the lookup misses only on an accepted cache, never after a rescan
C16_KeyErrorOnlyOnAcceptedCache ==
    (Constructed /\ ds.outcome = "KeyError") =>
        C16_Accepted /\ \E p \in imgList : p \notin DOMAIN cacheFile.entries

====
